---- MODULE Spec2Model ----
(***************************************************************************)
(* A model of SVM, a small register virtual machine (svm.c, svm.h) with    *)
(* its assembler (svm_asm.c, svm_util.c).                                  *)
(*                                                                         *)
(* 32-bit quantities are integers.  An unsigned 32-bit field (pc, sp, rpc, *)
(* size) is held as the signed integer with the same bit pattern, so that  *)
(* 0xFFFFFFFF is -1; the U32 operators compare and step such values the    *)
(* way the C code does.                                                    *)
(***************************************************************************)
EXTENDS Integers, Sequences, FiniteSets, TLC

(* ------------------------------------------------------------------ *)
(* Enumerations of svm.h                                               *)
(* ------------------------------------------------------------------ *)
R_MAX == 16

OP_NOP == 0
OP_END == 1
OP_MOV == 2
OP_PUSH == 3
OP_POP == 4
OP_ADD == 5
OP_SUB == 6
OP_MUL == 7
OP_DIV == 8
OP_AND == 9
OP_OR == 10
OP_XOR == 11
OP_SHL == 12
OP_SHR == 13
OP_CMP == 14
OP_CLF == 15
OP_JMP == 16
OP_INV == 17
OP_RET == 18
OP_SYS == 19
OP_MAX == 20

EXT_NONE == 0
EXT_EQ == 1
EXT_NE == 2
EXT_LT == 3
EXT_LE == 4
EXT_GT == 5
EXT_GE == 6
EXT_NZ == 7
EXT_Z == 8
EXT_MAX == 9

ARG_NONE == 0
ARG_R0 == 1
ARG_R1 == 2
ARG_R2 == 3
ARG_R15 == 16
ARG_IMM == 17
ARG_MAX == 18

SVM_CALL_STACK_INIT_SIZE == 8
SVM_STACK_INIT_SIZE == 32
SVM_LABEL_NAME_MAX == 32

\* The null pointer; tasks are named 1..MaxTasks.
NULL == 0

(* ------------------------------------------------------------------ *)
(* Bounds of the model                                                 *)
(* ------------------------------------------------------------------ *)
\* Number of svm_task_t objects the host may have allocated at once.
MaxTasks == 2

\* Values an indeterminate read (uninitialised or out-of-bounds memory) may
\* yield.  11 is a value no program of the model writes.
Indeterminate == {0, 11}

(* ------------------------------------------------------------------ *)
(* 32-bit arithmetic                                                   *)
(* ------------------------------------------------------------------ *)
INT32_MIN == -2147483647 - 1

\* x + 1 on a 32-bit field.
U32Inc(x) == IF x = 2147483647 THEN INT32_MIN ELSE x + 1

\* x - 1 on a 32-bit field (0 - 1 is 0xFFFFFFFF, held as -1).
U32Dec(x) == IF x = INT32_MIN THEN 2147483647 ELSE x - 1

\* a < b with both operands converted to uint32_t.
U32Lt(a, b) == IF (a < 0) = (b < 0) THEN a < b ELSE b < 0

\* C's signed division truncates toward zero.
TruncDiv(a, b) ==
  IF (a >= 0) = (b > 0) THEN (IF a >= 0 THEN a \div b ELSE (-a) \div (-b))
  ELSE (IF a >= 0 THEN -(a \div (-b)) ELSE -((-a) \div b))

RECURSIVE BitAnd(_, _), BitOr(_, _), BitXor(_, _)
\* Bitwise operators on two's complement integers.
BitAnd(a, b) ==
  IF a \in {0, -1} /\ b \in {0, -1} THEN (IF a = -1 /\ b = -1 THEN -1 ELSE 0)
  ELSE ((a % 2) * (b % 2)) + 2 * BitAnd(a \div 2, b \div 2)

BitOr(a, b) ==
  IF a \in {0, -1} /\ b \in {0, -1} THEN (IF a = -1 \/ b = -1 THEN -1 ELSE 0)
  ELSE (IF (a % 2) + (b % 2) > 0 THEN 1 ELSE 0) + 2 * BitOr(a \div 2, b \div 2)

BitXor(a, b) ==
  IF a \in {0, -1} /\ b \in {0, -1} THEN (IF a # b THEN -1 ELSE 0)
  ELSE ((a + b) % 2) + 2 * BitXor(a \div 2, b \div 2)

\* 2 * x on a 32-bit field.
Dbl32(x) ==
  IF x >= 1073741824 THEN (2 * (x - 1073741824)) + INT32_MIN
  ELSE IF x < -1073741824 THEN 2 * ((x - INT32_MIN))
  ELSE 2 * x

RECURSIVE Shl32(_, _)
Shl32(x, n) == IF n = 0 THEN x ELSE Shl32(Dbl32(x), n - 1)

RECURSIVE Sar32(_, _)
\* Arithmetic shift right, one bit at a time.
Sar32(x, n) == IF n = 0 THEN x ELSE Sar32(x \div 2, n - 1)

(* ------------------------------------------------------------------ *)
(* Instruction word                                                    *)
(* ------------------------------------------------------------------ *)
svm_pack_instruction(op, ext, arg1, arg2) ==
  [op |-> op, ext |-> ext, arg1 |-> arg1, arg2 |-> arg2]

\* The packed struct read back with op in the most significant byte.
InstructionToInt32Reversed(instruction) ==
  instruction.arg2 + (256 * instruction.arg1) + (65536 * instruction.ext)
    + (16777216 * (IF instruction.op >= 128 THEN instruction.op - 256
                   ELSE instruction.op))

\* The packed struct read back as an int32_t: byte 0 is op, byte 3 is arg2.
svm_instruction_to_int32(instruction) ==
  instruction.op + (256 * instruction.ext) + (65536 * instruction.arg1)
    + (16777216 * (IF instruction.arg2 >= 128 THEN instruction.arg2 - 256
                   ELSE instruction.arg2))

\* The cast (svm_instruction_t *) &buffer[pc]: the four bytes of the word.
DecodeInstruction(w) ==
  [op   |-> w % 256,
   ext  |-> (w \div 256) % 256,
   arg1 |-> (w \div 65536) % 256,
   arg2 |-> (w \div 16777216) % 256]

svm_is_arg_register(type) == type > ARG_NONE /\ type < ARG_IMM

svm_arg_to_reg(arg) == IF arg >= ARG_R0 /\ arg <= ARG_R15 THEN arg - 1 ELSE R_MAX

(* ------------------------------------------------------------------ *)
(* Memory of a task's stacks                                           *)
(* ------------------------------------------------------------------ *)
\* A buffer is the map of the words written so far; a word never written
\* holds an indeterminate value.
EmptyMem == [i \in {} |-> 0]

MemWrite(m, i, v) == [j \in (DOMAIN m) \cup {i} |-> IF j = i THEN v ELSE m[j]]

MemRead(m, i) == IF i \in DOMAIN m THEN {m[i]} ELSE Indeterminate

\* SVM_REALLOC_CHECK(buffer, size) passes size as the number of BYTES, and
\* the buffer holds int32_t: the words that lie inside the allocation.
AllocWords(size) == size \div 4

\* Index i (a uint32_t) is outside the storage allocated for a stack.
OutOfAlloc(i, size) == ~(0 <= i /\ i < AllocWords(size))

(* ------------------------------------------------------------------ *)
(* Task context                                                        *)
(* ------------------------------------------------------------------ *)
FlagsAll(value) ==
  [eq |-> value, ne |-> value, lt |-> value, le |-> value,
   gt |-> value, ge |-> value, nz |-> value, z |-> value]

ZeroRegisters == [r \in 0..(R_MAX - 1) |-> 0]

\* A task initialisation that sizes both stacks with the defaults.
TaskInitDefaultSizes(cd, pc, registers) ==
  [next       |-> NULL,
   flags      |-> FlagsAll(FALSE),
   pc         |-> pc,
   rpc        |-> 0,
   sp         |-> 0,
   registers  |-> registers,
   call_stack |-> [buffer |-> EmptyMem, size |-> SVM_CALL_STACK_INIT_SIZE],
   stack      |-> [buffer |-> EmptyMem, size |-> SVM_STACK_INIT_SIZE]]

svm_task_init(cd, pc, registers) ==
  [next       |-> NULL,
   flags      |-> FlagsAll(FALSE),
   pc         |-> pc,
   rpc        |-> 0,
   sp         |-> 0,
   registers  |-> registers,
   call_stack |-> [buffer |-> EmptyMem,
                   size   |-> IF cd.meta.call_stack_size # 0
                              THEN cd.meta.call_stack_size
                              ELSE SVM_CALL_STACK_INIT_SIZE],
   stack      |-> [buffer |-> EmptyMem,
                   size   |-> IF cd.meta.stack_size # 0
                              THEN cd.meta.stack_size
                              ELSE SVM_STACK_INIT_SIZE]]

\* A predicate check that lets every instruction act.
AlwaysTaken(t, ext) == TRUE

svm_check_condition(t, ext) ==
  CASE ext = EXT_NONE -> TRUE
    [] ext = EXT_EQ   -> t.flags.eq
    [] ext = EXT_NE   -> t.flags.ne
    [] ext = EXT_LT   -> t.flags.lt
    [] ext = EXT_LE   -> t.flags.le
    [] ext = EXT_GT   -> t.flags.gt
    [] ext = EXT_GE   -> t.flags.ge
    [] ext = EXT_NZ   -> t.flags.nz
    [] ext = EXT_Z    -> t.flags.z
    [] OTHER          -> FALSE

\* A value check that clears the flag it does not set.
NzZExact(t, value) ==
  [t EXCEPT !.flags.nz = (value # 0), !.flags.z = (value = 0)]

svm_check_value_set_nz_z_flags(t, value) ==
  IF value # 0 THEN [t EXCEPT !.flags.nz = TRUE]
  ELSE [t EXCEPT !.flags.z = TRUE]

\* A flag write that ignores the suffix and writes every flag.
SetEveryFlag(t, ext, value) == [t EXCEPT !.flags = FlagsAll(value)]

svm_set_flag_by_ext(t, ext, value) ==
  CASE ext = EXT_NONE -> [t EXCEPT !.flags = FlagsAll(value)]
    [] ext = EXT_EQ   -> [t EXCEPT !.flags.eq = value]
    [] ext = EXT_NE   -> [t EXCEPT !.flags.ne = value]
    [] ext = EXT_LT   -> [t EXCEPT !.flags.lt = value]
    [] ext = EXT_LE   -> [t EXCEPT !.flags.le = value]
    [] ext = EXT_GT   -> [t EXCEPT !.flags.gt = value]
    [] ext = EXT_GE   -> [t EXCEPT !.flags.ge = value]
    [] ext = EXT_NZ   -> [t EXCEPT !.flags.nz = value]
    [] ext = EXT_Z    -> [t EXCEPT !.flags.z = value]
    [] OTHER          -> t

(* ------------------------------------------------------------------ *)
(* One cycle.  A context c carries the task being executed and what    *)
(* the cycle has touched so far: the code indices read, the stack      *)
(* slots accessed, and whether an access had undefined behaviour.      *)
(* ------------------------------------------------------------------ *)
Ctx(t) == [t |-> t, reads |-> {}, stk |-> {}, cstk |-> {}, ub |-> FALSE]

\* What a cycle hands back: the task, the return value, the running flag,
\* whether the predicate let the instruction act and whether pc was set
\* to a branch target.
Outcome(c, ret, run, cond, branch) ==
  [t |-> c.t, ret |-> ret, running |-> run, cond |-> cond, branch |-> branch,
   reads |-> c.reads, stk |-> c.stk, cstk |-> c.cstk, ub |-> c.ub]

\* pc indexes code.buffer from 0; sequences are indexed from 1.
InCode(cd, i) == 0 <= i /\ U32Lt(i, cd.size)

\* An operand read that leaves pc where it was.
CodeFetchNoAdvance(c, cd) ==
  LET c1 == [c EXCEPT !.reads = @ \cup {c.t.pc}]
  IN  IF 0 <= c.t.pc /\ c.t.pc < cd.size
      THEN {[v |-> cd.buffer[c.t.pc + 1], c |-> c1]}
      ELSE {[v |-> g, c |-> [c1 EXCEPT !.ub = TRUE]] : g \in {0, 11}}

\* code.buffer[pc++]: there is no bound check, so past the end of the
\* image the value is whatever lies behind the buffer.
CodeFetch(c, cd) ==
  LET c1 == [c EXCEPT !.t.pc = U32Inc(@), !.reads = @ \cup {c.t.pc}]
  IN  IF InCode(cd, c.t.pc)
      THEN {[v |-> cd.buffer[c.t.pc + 1], c |-> c1]}
      ELSE {[v |-> g, c |-> [c1 EXCEPT !.ub = TRUE]] : g \in Indeterminate}

svm_get_arg_value(c, cd, type) ==
  IF svm_is_arg_register(type)
  THEN LET reg == svm_arg_to_reg(type)
       IN  {[v |-> IF reg < R_MAX THEN c.t.registers[reg] ELSE 0, c |-> c]}
  ELSE IF type = ARG_IMM THEN CodeFetch(c, cd)
  ELSE {[v |-> 0, c |-> c]}

\* registers[r] as PUSH reads it: r = R_MAX (no register) is one past the
\* end of the register file.
RegRead(c, r) ==
  IF r < R_MAX THEN {[v |-> c.t.registers[r], c |-> c]}
  ELSE {[v |-> g, c |-> [c EXCEPT !.ub = TRUE]] : g \in Indeterminate}

\* stack.buffer[sp++] = v
StackPush(c, v) ==
  [c EXCEPT !.t.stack.buffer = MemWrite(@, c.t.sp, v),
            !.t.sp = U32Inc(@),
            !.stk = @ \cup {c.t.sp},
            !.ub = @ \/ OutOfAlloc(c.t.sp, c.t.stack.size)]

\* stack.buffer[--sp]
StackPopPre(c) ==
  LET sp1 == U32Dec(c.t.sp)
      c1  == [c EXCEPT !.t.sp = sp1, !.stk = @ \cup {sp1},
                       !.ub = @ \/ OutOfAlloc(sp1, c.t.stack.size)]
  IN  {[v |-> g, c |-> c1] : g \in MemRead(c.t.stack.buffer, sp1)}

\* stack.buffer[sp--]
StackPopPost(c) ==
  LET c1 == [c EXCEPT !.t.sp = U32Dec(@), !.stk = @ \cup {c.t.sp},
                      !.ub = @ \/ OutOfAlloc(c.t.sp, c.t.stack.size)]
  IN  {[v |-> g, c |-> c1] : g \in MemRead(c.t.stack.buffer, c.t.sp)}

RECURSIVE PushRange(_, _, _)
\* for (r = from; r <= to; r++) stack.buffer[sp++] = registers[r]
PushRange(c, r, to) ==
  IF r > to THEN {c}
  ELSE UNION {PushRange(StackPush(x.c, x.v), r + 1, to) : x \in RegRead(c, r)}

RECURSIVE PopRangeAscending(_, _, _)
\* A range pop that fills the registers lowest first.
PopRangeAscending(c, r, from) ==
  IF r < from THEN {c}
  ELSE UNION {PopRangeAscending([x.c EXCEPT !.t.registers[from] = x.v], r, from + 1)
              : x \in StackPopPre(c)}

RECURSIVE PopRange(_, _, _)
\* for (r = to; r >= from; r--) registers[r] = stack.buffer[--sp]
\* (register_t is a signed machine word, so the loop ends for from = 0)
PopRange(c, r, from) ==
  IF r < from THEN {c}
  ELSE UNION {PopRange([x.c EXCEPT !.t.registers[r] = x.v], r - 1, from)
              : x \in StackPopPre(c)}

(* ------------------------------------------------------------------ *)
(* Opcode semantics                                                    *)
(* ------------------------------------------------------------------ *)
AluOps == {OP_MOV, OP_ADD, OP_SUB, OP_MUL, OP_DIV,
           OP_AND, OP_OR, OP_XOR, OP_SHL, OP_SHR}

\* The value "registers[reg] <op>= arg2" leaves in the register.  Division
\* by zero and a shift count outside 0..31 are undefined in C: the value is
\* the one an x86 or an ARM build leaves when it does not trap.
AluValue(op, old, a) ==
  CASE op = OP_MOV -> {[v |-> a, ub |-> FALSE]}
    [] op = OP_ADD -> {[v |-> old + a, ub |-> FALSE]}
    [] op = OP_SUB -> {[v |-> old - a, ub |-> FALSE]}
    [] op = OP_MUL -> {[v |-> old * a, ub |-> FALSE]}
    [] op = OP_DIV -> IF a = 0 THEN {[v |-> 0, ub |-> TRUE]}
                      ELSE {[v |-> TruncDiv(old, a), ub |-> FALSE]}
    [] op = OP_AND -> {[v |-> BitAnd(old, a), ub |-> FALSE]}
    [] op = OP_OR  -> {[v |-> BitOr(old, a), ub |-> FALSE]}
    [] op = OP_XOR -> {[v |-> BitXor(old, a), ub |-> FALSE]}
    [] op = OP_SHL -> IF a \in 0..31 THEN {[v |-> Shl32(old, a), ub |-> FALSE]}
                      ELSE {[v |-> Shl32(old, a % 32), ub |-> TRUE],
                            [v |-> 0, ub |-> TRUE]}
    [] op = OP_SHR -> IF a \in 0..31 THEN {[v |-> Sar32(old, a), ub |-> FALSE]}
                      ELSE {[v |-> Sar32(old, a % 32), ub |-> TRUE],
                            [v |-> IF old < 0 THEN -1 ELSE 0, ub |-> TRUE]}

\* case OP_MOV, OP_ADD .. OP_SHR
ExecAlu(c0, cd, ins) ==
  UNION {
    IF ~svm_check_condition(a.c.t, ins.ext)
    THEN {Outcome(a.c, "SVM_OK", TRUE, FALSE, FALSE)}
    ELSE LET reg == svm_arg_to_reg(ins.arg1)
         IN  IF ~(reg < R_MAX)
             THEN {Outcome(a.c, "SVM_ERR_ARG_NOT_REG", TRUE, TRUE, FALSE)}
             ELSE {Outcome([a.c EXCEPT
                              !.t = svm_check_value_set_nz_z_flags(
                                      [@ EXCEPT !.registers[reg] = r.v], r.v),
                              !.ub = @ \/ r.ub],
                            "SVM_OK", TRUE, TRUE, FALSE)
                   : r \in AluValue(ins.op, a.c.t.registers[reg], a.v)}
    : a \in svm_get_arg_value(c0, cd, ins.arg2)}

\* sp + 1 >= stack.size, in uint32_t arithmetic
PushOneOverflows(t) == ~U32Lt(U32Inc(t.sp), t.stack.size)

\* sp + to - from >= stack.size, in the signed 64-bit arithmetic of register_t
PushRangeOverflows(t, from, to) ==
  IF t.sp < 0 THEN TRUE ELSE t.sp + to - from >= t.stack.size

\* case OP_PUSH
ExecPush(c0, cd, ins) ==
  UNION {
    LET c == a.c
    IN  IF ~svm_check_condition(c.t, ins.ext)
        THEN {Outcome(c, "SVM_OK", TRUE, FALSE, FALSE)}
        ELSE IF ins.arg1 = ARG_IMM
        THEN IF PushOneOverflows(c.t)
             THEN {Outcome(c, "SVM_ERR_STK_OVERFLOW", TRUE, TRUE, FALSE)}
             ELSE {Outcome(StackPush(c, a.v), "SVM_OK", TRUE, TRUE, FALSE)}
        ELSE IF ins.arg2 = ARG_NONE
        THEN IF PushOneOverflows(c.t)
             THEN {Outcome(c, "SVM_ERR_STK_OVERFLOW", TRUE, TRUE, FALSE)}
             ELSE {Outcome(StackPush(x.c, x.v), "SVM_OK", TRUE, TRUE, FALSE)
                   : x \in RegRead(c, svm_arg_to_reg(ins.arg1))}
        ELSE LET from == svm_arg_to_reg(ins.arg1)
                 to   == svm_arg_to_reg(ins.arg2)
             IN  IF ~(from < to)
                 THEN {Outcome(c, "SVM_ERR_PUSH_ARG_BAD_ORDER", TRUE, TRUE, FALSE)}
                 ELSE IF PushRangeOverflows(c.t, from, to)
                 THEN {Outcome(c, "SVM_ERR_STK_OVERFLOW", TRUE, TRUE, FALSE)}
                 ELSE {Outcome(x, "SVM_OK", TRUE, TRUE, FALSE)
                       : x \in PushRange(c, from, to)}
    : a \in (IF ins.arg1 = ARG_IMM THEN svm_get_arg_value(c0, cd, ins.arg1)
             ELSE {[v |-> 0, c |-> c0]})}

\* sp < to - from, in the signed 64-bit arithmetic of register_t
PopRangeUnderflows(t, from, to) ==
  IF t.sp < 0 THEN FALSE ELSE t.sp < to - from

\* case OP_POP
ExecPop(c, cd, ins) ==
  IF ~svm_check_condition(c.t, ins.ext)
  THEN {Outcome(c, "SVM_OK", TRUE, FALSE, FALSE)}
  ELSE IF svm_is_arg_register(ins.arg1) /\ ins.arg2 = ARG_NONE
  THEN IF U32Lt(c.t.sp, 1)
       THEN {Outcome(c, "SVM_ERR_STK_UNDERFLOW", TRUE, TRUE, FALSE)}
       ELSE {Outcome([x.c EXCEPT !.t.registers[svm_arg_to_reg(ins.arg1)] = x.v],
                     "SVM_OK", TRUE, TRUE, FALSE)
             : x \in StackPopPost(c)}
  ELSE IF ~svm_is_arg_register(ins.arg1) \/ ~svm_is_arg_register(ins.arg2)
  THEN {Outcome(c, "SVM_ERR_ARG_NOT_REG", TRUE, TRUE, FALSE)}
  ELSE LET from == svm_arg_to_reg(ins.arg1)
           to   == svm_arg_to_reg(ins.arg2)
       IN  IF ~(from < to)
           THEN {Outcome(c, "SVM_ERR_PUSH_ARG_BAD_ORDER", TRUE, TRUE, FALSE)}
           ELSE IF PopRangeUnderflows(c.t, from, to)
           THEN {Outcome(c, "SVM_ERR_STK_UNDERFLOW", TRUE, TRUE, FALSE)}
           ELSE {Outcome(x, "SVM_OK", TRUE, TRUE, FALSE)
                 : x \in PopRange(c, to, from)}

\* A comparison that also clears the flags whose relation does not hold.
CmpFlagsExact(f, a, b) ==
  [f EXCEPT !.eq = (a = b), !.ne = (a # b), !.gt = (a > b),
            !.ge = (a >= b), !.lt = (a < b), !.le = (a <= b)]

\* The six comparisons of OP_CMP: a flag is set when its relation holds
\* and is otherwise left alone.
CmpFlags(f, a, b) ==
  [f EXCEPT !.eq = @ \/ (a = b), !.ne = @ \/ (a # b),
            !.gt = @ \/ (a > b), !.ge = @ \/ (a >= b),
            !.lt = @ \/ (a < b), !.le = @ \/ (a <= b)]

\* case OP_CMP
ExecCmp(c0, cd, ins) ==
  UNION {
    {Outcome([a2.c EXCEPT !.t.flags = CmpFlags(@, a1.v, a2.v)],
             "SVM_OK", TRUE, TRUE, FALSE)
     : a2 \in svm_get_arg_value(a1.c, cd, ins.arg2)}
    : a1 \in svm_get_arg_value(c0, cd, ins.arg1)}

\* A target test that compares as signed numbers.
JumpTargetSigned(cd, target) == target < cd.size

\* if (arg1 < vm->code->size) pc = arg1: int32_t against uint32_t
JumpTargetOk(cd, target) == U32Lt(target, cd.size)

\* case OP_JMP
ExecJmp(c0, cd, ins) ==
  {IF ~svm_check_condition(a.c.t, ins.ext)
   THEN Outcome(a.c, "SVM_OK", TRUE, FALSE, FALSE)
   ELSE IF JumpTargetOk(cd, a.v)
   THEN Outcome([a.c EXCEPT !.t.pc = a.v], "SVM_OK", TRUE, TRUE, TRUE)
   ELSE Outcome(a.c, "SVM_ERR_JMP_OVERFLOW", TRUE, TRUE, FALSE)
   : a \in svm_get_arg_value(c0, cd, ins.arg1)}

\* rpc + 1 >= call_stack.size
CallStackFull(t) == ~U32Lt(U32Inc(t.rpc), t.call_stack.size)

\* call_stack.buffer[rpc++] = pc
CallPush(c) ==
  [c EXCEPT !.t.call_stack.buffer = MemWrite(@, c.t.rpc, c.t.pc),
            !.t.rpc = U32Inc(@),
            !.cstk = @ \cup {c.t.rpc},
            !.ub = @ \/ OutOfAlloc(c.t.rpc, c.t.call_stack.size)]

\* case OP_INV
ExecInv(c0, cd, ins) ==
  {IF ~svm_check_condition(a.c.t, ins.ext)
   THEN Outcome(a.c, "SVM_OK", TRUE, FALSE, FALSE)
   ELSE IF CallStackFull(a.c.t)
   THEN Outcome(a.c, "SVM_ERR_CALL_STK_OVERFLOW", TRUE, TRUE, FALSE)
   ELSE IF JumpTargetOk(cd, a.v)
   THEN Outcome([CallPush(a.c) EXCEPT !.t.pc = a.v], "SVM_OK", TRUE, TRUE, TRUE)
   ELSE Outcome(CallPush(a.c), "SVM_ERR_JMP_OVERFLOW", TRUE, TRUE, FALSE)
   : a \in svm_get_arg_value(c0, cd, ins.arg1)}

\* A RET that stops the VM when the call stack is empty.
ExecRetHalting(c, cd, ins) ==
  {[t |-> c.t, ret |-> "SVM_ERR_CALL_STK_UNDERFLOW", running |-> FALSE,
    cond |-> TRUE, branch |-> FALSE,
    reads |-> c.reads, stk |-> c.stk, cstk |-> c.cstk, ub |-> c.ub]}

\* A RET that pops without looking whether the call stack is empty.
ExecRetUnchecked(c, cd, ins) ==
  LET rpc1 == U32Dec(c.t.rpc)
  IN  {Outcome([c EXCEPT !.t.rpc = rpc1, !.t.pc = v,
                         !.cstk = @ \cup {rpc1},
                         !.ub = @ \/ OutOfAlloc(rpc1, c.t.call_stack.size)],
               "SVM_OK", TRUE, TRUE, TRUE)
       : v \in MemRead(c.t.call_stack.buffer, rpc1)}

\* case OP_RET: pc = call_stack.buffer[--rpc]
ExecRet(c, cd, ins) ==
  IF c.t.rpc # 0
  THEN LET rpc1 == U32Dec(c.t.rpc)
       IN  {Outcome([c EXCEPT !.t.rpc = rpc1, !.t.pc = v,
                              !.cstk = @ \cup {rpc1},
                              !.ub = @ \/ OutOfAlloc(rpc1, c.t.call_stack.size)],
                    "SVM_OK", TRUE, TRUE, TRUE)
            : v \in MemRead(c.t.call_stack.buffer, rpc1)}
  ELSE {Outcome(c, "SVM_ERR_CALL_STK_UNDERFLOW", TRUE, TRUE, FALSE)}

\* The host's syscall handler.  It is a weak symbol: the default does
\* nothing, a host's own handler may write the register file it is given.
svm_sys_handler(registers, syscall_num) ==
  {registers, [registers EXCEPT ![0] = 1]}

\* case OP_SYS
ExecSys(c0, cd, ins) ==
  UNION {
    {Outcome([a.c EXCEPT !.t.registers = regs], "SVM_OK", TRUE, TRUE, FALSE)
     : regs \in svm_sys_handler(a.c.t.registers, a.v)}
    : a \in svm_get_arg_value(c0, cd, ins.arg1)}

\* An END that leaves the VM running.
ExecEndRunning(c, cd, ins) ==
  {[t |-> c.t, ret |-> "SVM_OK", running |-> TRUE, cond |-> TRUE,
    branch |-> FALSE, reads |-> c.reads, stk |-> c.stk, cstk |-> c.cstk,
    ub |-> c.ub]}

\* An END that also unlinks the task from the tasks behind it.
ExecEndUnlinking(c, cd, ins) ==
  {[t |-> [c.t EXCEPT !.next = NULL], ret |-> "SVM_OK", running |-> FALSE,
    cond |-> TRUE, branch |-> FALSE, reads |-> c.reads, stk |-> c.stk,
    cstk |-> c.cstk, ub |-> c.ub]}

\* An END that its predicate suffix can switch off.
ExecEndPredicated(c, cd, ins) ==
  IF svm_check_condition(c.t, ins.ext)
  THEN {Outcome(c, "SVM_OK", FALSE, TRUE, FALSE)}
  ELSE {Outcome(c, "SVM_OK", TRUE, FALSE, FALSE)}

\* case OP_END: running = false
ExecEnd(c, cd, ins) == {Outcome(c, "SVM_OK", FALSE, TRUE, FALSE)}

\* svm_cycle on a VM whose current task is t.
svm_cycle(run, t, cd) ==
  IF ~run
  THEN {Outcome(Ctx(t), "SVM_ERR_NOT_RUNNING", FALSE, FALSE, FALSE)}
  ELSE IF ~U32Lt(t.pc, cd.size)
  THEN {Outcome(Ctx(t), "SVM_ERR_CODE_OVERFLOW", FALSE, FALSE, FALSE)}
  ELSE LET c0  == [Ctx(t) EXCEPT !.t.pc = U32Inc(@), !.reads = {t.pc}]
           ins == DecodeInstruction(cd.buffer[t.pc + 1])
       IN  CASE ins.op = OP_NOP  -> {Outcome(c0, "SVM_OK", TRUE, TRUE, FALSE)}
             [] ins.op = OP_END  -> ExecEnd(c0, cd, ins)
             [] ins.op \in AluOps -> ExecAlu(c0, cd, ins)
             [] ins.op = OP_PUSH -> ExecPush(c0, cd, ins)
             [] ins.op = OP_POP  -> ExecPop(c0, cd, ins)
             [] ins.op = OP_CMP  -> ExecCmp(c0, cd, ins)
             [] ins.op = OP_CLF  ->
                  {Outcome([c0 EXCEPT !.t = svm_set_flag_by_ext(@, ins.ext, FALSE)],
                           "SVM_OK", TRUE, TRUE, FALSE)}
             [] ins.op = OP_JMP  -> ExecJmp(c0, cd, ins)
             [] ins.op = OP_INV  -> ExecInv(c0, cd, ins)
             [] ins.op = OP_RET  -> ExecRet(c0, cd, ins)
             [] ins.op = OP_SYS  -> ExecSys(c0, cd, ins)
             [] OTHER -> {Outcome(c0, "SVM_ERR_UNKNOWN_INSTRUCTION", TRUE, TRUE, FALSE)}

(* ------------------------------------------------------------------ *)
(* The assembler.  A source text is a sequence of characters (strings  *)
(* of length one); a char* is an offset into the buffer that holds it. *)
(* ------------------------------------------------------------------ *)
\* The zero byte that ends a C string.
NUL == ""

\* A char* that is NULL, where a string is expected.
NullStr == <<"NULL">>

\* The string at offset p of buffer s: the characters up to the next NUL.
RECURSIVE CStr(_, _)
CStr(s, p) ==
  IF p >= Len(s) \/ s[p + 1] = NUL THEN <<>>
  ELSE <<s[p + 1]>> \o CStr(s, p + 1)

svm_str2opcode(str) ==
  CASE str = <<"n", "o", "p">> -> OP_NOP
    [] str = <<"e", "n", "d">> -> OP_END
    [] str = <<"m", "o", "v">> -> OP_MOV
    [] str = <<"a", "d", "d">> -> OP_ADD
    [] str = <<"s", "u", "b">> -> OP_SUB
    [] str = <<"m", "u", "l">> -> OP_MUL
    [] str = <<"d", "i", "v">> -> OP_DIV
    [] str = <<"c", "m", "p">> -> OP_CMP
    [] str = <<"c", "l", "f">> -> OP_CLF
    [] str = <<"j", "m", "p">> -> OP_JMP
    [] str = <<"i", "n", "v">> -> OP_INV
    [] str = <<"r", "e", "t">> -> OP_RET
    [] str = <<"s", "y", "s">> -> OP_SYS
    [] OTHER -> OP_MAX

\* "r0" .. "r15" name the registers; any other string is an immediate.
svm_str2arg(str) ==
  CASE str = NullStr -> ARG_MAX
    [] str = <<"r", "0">> -> ARG_R0
    [] str = <<"r", "1">> -> ARG_R0 + 1
    [] str = <<"r", "2">> -> ARG_R0 + 2
    [] str = <<"r", "3">> -> ARG_R0 + 3
    [] str = <<"r", "4">> -> ARG_R0 + 4
    [] str = <<"r", "5">> -> ARG_R0 + 5
    [] str = <<"r", "6">> -> ARG_R0 + 6
    [] str = <<"r", "7">> -> ARG_R0 + 7
    [] str = <<"r", "8">> -> ARG_R0 + 8
    [] str = <<"r", "9">> -> ARG_R0 + 9
    [] str = <<"r", "1", "0">> -> ARG_R0 + 10
    [] str = <<"r", "1", "1">> -> ARG_R0 + 11
    [] str = <<"r", "1", "2">> -> ARG_R0 + 12
    [] str = <<"r", "1", "3">> -> ARG_R0 + 13
    [] str = <<"r", "1", "4">> -> ARG_R0 + 14
    [] str = <<"r", "1", "5">> -> ARG_R0 + 15
    [] OTHER -> ARG_IMM

svm_str2ext(str) ==
  CASE str = NullStr -> EXT_MAX
    [] str = <<"e", "q">> -> EXT_EQ
    [] str = <<"n", "e">> -> EXT_NE
    [] str = <<"l", "t">> -> EXT_LT
    [] str = <<"l", "e">> -> EXT_LE
    [] str = <<"g", "t">> -> EXT_GT
    [] str = <<"g", "e">> -> EXT_GE
    [] str = <<"n", "z">> -> EXT_NZ
    [] str = <<"z">> -> EXT_Z
    [] OTHER -> EXT_NONE

\* The digit svm_to_int32 takes a character for: '0'..'8' by "- '0'",
\* 'a'..'f' by "- 'a'" and 'A'..'F' by "- 'A'"; '9' and every other
\* character end the conversion.
DigitOf ==
  ("0" :> 0 @@ "1" :> 1 @@ "2" :> 2 @@ "3" :> 3 @@ "4" :> 4 @@ "5" :> 5 @@
   "6" :> 6 @@ "7" :> 7 @@ "8" :> 8 @@
   "a" :> 0 @@ "b" :> 1 @@ "c" :> 2 @@ "d" :> 3 @@ "e" :> 4 @@ "f" :> 5 @@
   "A" :> 0 @@ "B" :> 1 @@ "C" :> 2 @@ "D" :> 3 @@ "E" :> 4 @@ "F" :> 5)

RECURSIVE ToInt32Loop(_, _, _, _)
\* for (; index < size; ++index) ... *value = *value * base + digit
ToInt32Loop(str, index, base, value) ==
  IF index >= Len(str) THEN [ok |-> TRUE, value |-> value]
  ELSE IF str[index + 1] \in DOMAIN DigitOf
  THEN ToInt32Loop(str, index + 1, base, value * base + DigitOf[str[index + 1]])
  ELSE [ok |-> FALSE, value |-> value]

svm_to_int32(str) ==
  LET prefixed == Len(str) > 2 /\ str[1] = "0" /\ str[2] \in {"x", "b"}
  IN  ToInt32Loop(str,
                  IF prefixed THEN 2 ELSE 0,
                  IF prefixed THEN (IF str[2] = "x" THEN 16 ELSE 2) ELSE 10,
                  0)

\* opcode_meta[op]: the number of arguments and what each may be.  The
\* table has no initialiser for OP_PUSH and OP_POP: their entries are zero.
ArgcNone == "SVM_ASM_ARGC_NONE"
ArgcAll == "SVM_ASM_ARGC_ALL"

opcode_meta(op) ==
  CASE op \in AluOps \cup {OP_CMP} ->
         [arg_count |-> 2, arg1_restrict |-> ArgcAll, arg2_restrict |-> ArgcAll]
    [] op \in {OP_JMP, OP_INV, OP_SYS} ->
         [arg_count |-> 1, arg1_restrict |-> ArgcAll, arg2_restrict |-> ArgcNone]
    [] OTHER ->
         [arg_count |-> 0, arg1_restrict |-> ArgcNone, arg2_restrict |-> ArgcNone]

\* A check that lets no immediate pass.
CheckConstraintNoImm(constraint, arg) ==
  \/ arg = ARG_NONE /\ constraint = ArgcNone
  \/ arg >= ARG_R0 /\ arg <= ARG_R15 /\ constraint # ArgcNone

svm_asm_check_constraint(constraint, arg) ==
  \/ arg = ARG_NONE /\ constraint = ArgcNone
  \/ arg = ARG_IMM /\ constraint = "SVM_ASM_ARGC_IMM_ONLY"
  \/ arg >= ARG_R0 /\ arg <= ARG_R15 /\ constraint = "SVM_ASM_ARGC_REG_ONLY"
  \/ arg # ARG_NONE /\ constraint = ArgcAll

\* sizeof(svm_asm_label_t): the name and an int32_t
LabelBytes == SVM_LABEL_NAME_MAX + 4

\* The svm_asm_t after svm_asm_init, with the source buffer svm_asm_file
\* fills (the text and a terminating zero) and the position in it.  lits
\* remembers the offsets of the words emitted as literals; ub, that a write
\* went outside the storage allocated for it.  What is written outside an
\* allocation need not be there when it is read: kept tells whether, in
\* this run, such entries of the label and patch tables read back as they
\* were written, or as something else (a name that matches nothing).
AsmCtx(text, kept) ==
  [s |-> Append(text, NUL), p |-> 0, source_end |-> Len(text),
   code |-> <<>>, lits |-> {},
   labels  |-> [buffer |-> <<>>, capacity |-> 8, bytes |-> 8],
   patches |-> [buffer |-> <<>>, capacity |-> 0, bytes |-> 0],
   ub |-> FALSE, kept |-> kept, ret |-> ""]

\* The context before svm_asm_file is called.
NoAsm == [AsmCtx(<<>>, TRUE) EXCEPT !.ret = "none"]

svm_asm_push_i32(x, i32) == [x EXCEPT !.code = Append(@, i32)]

\* labels.buffer is allocated capacity BYTES by svm_asm_init and
\* capacity * sizeof(label) bytes once it has been grown.
svm_asm_add_label(x, name, location) ==
  LET grow  == Len(x.labels.buffer) + 1 >= x.labels.capacity
      cap   == IF grow THEN x.labels.capacity + 8 ELSE x.labels.capacity
      bytes == IF grow THEN cap * LabelBytes ELSE x.labels.bytes
  IN  [x EXCEPT
         !.labels = [buffer   |-> Append(@.buffer, [name |-> name, location |-> location]),
                     capacity |-> cap, bytes |-> bytes],
         !.ub = @ \/ (Len(x.labels.buffer) + 1) * LabelBytes > bytes
                  \/ Len(name) >= SVM_LABEL_NAME_MAX]

RECURSIVE FindLabel(_, _, _)
\* for (i = 0; i < labels.size; ++i) if (!strcmp(name, buffer[i].name)) ...
\* Entry i occupies the bytes up to i * sizeof(label) of the buffer.
FindLabel(x, name, i) ==
  IF i > Len(x.labels.buffer) THEN -1
  ELSE IF /\ x.kept \/ i * LabelBytes <= x.labels.bytes
          /\ x.labels.buffer[i].name = name
       THEN x.labels.buffer[i].location
  ELSE FindLabel(x, name, i + 1)

svm_asm_find_label(x, name) == FindLabel(x, name, 1)

\* patches.buffer is grown to capacity BYTES.
svm_asm_add_patch_label(x, name, location) ==
  LET grow  == Len(x.patches.buffer) + 1 >= x.patches.capacity
      cap   == IF grow THEN x.patches.capacity + 8 ELSE x.patches.capacity
      bytes == IF grow THEN cap ELSE x.patches.bytes
  IN  [x EXCEPT
         !.patches = [buffer   |-> Append(@.buffer, [name |-> name, location |-> location]),
                      capacity |-> cap, bytes |-> bytes],
         !.ub = @ \/ (Len(x.patches.buffer) + 1) * LabelBytes > bytes
                  \/ Len(name) >= SVM_LABEL_NAME_MAX]

\* The element of a set that has one.  Binding a value as the element of a
\* singleton set evaluates it once, however often it is then used.
Only(S) == CHOOSE r \in S : TRUE

RECURSIVE PatchLabels(_, _)
PatchLabels(xx, i) ==
  Only({IF i > Len(x.patches.buffer) THEN [x EXCEPT !.ret = "SVM_ASM_OK"]
        ELSE LET value == IF x.kept \/ i * LabelBytes <= x.patches.bytes
                              THEN svm_asm_find_label(x, x.patches.buffer[i].name)
                              ELSE -1
             IN  IF value = -1
                 THEN [x EXCEPT !.ret = "SVM_ASM_ERR_UNDEFINED_LABEL"]
                 ELSE PatchLabels(
                        [x EXCEPT !.code[x.patches.buffer[i].location + 1] = value],
                        i + 1)
        : x \in {xx}})

svm_asm_patch_labels(x) == PatchLabels(x, 1)

RECURSIVE SkipBlanks(_, _)
\* while (**source == ' ' || **source == '\n') (*source)++
SkipBlanks(s, p) ==
  IF p < Len(s) /\ s[p + 1] \in {" ", "\n"} THEN SkipBlanks(s, p + 1) ELSE p

RECURSIVE SkipToken(_, _)
\* while (**source != ' ' && != '\n' && != '.' && != '\0') (*source)++
SkipToken(s, p) ==
  IF p < Len(s) /\ s[p + 1] \notin {" ", "\n", ".", NUL}
  THEN SkipToken(s, p + 1) ELSE p

\* The next token: its offset (-1 for NULL) and the context with the
\* token's delimiter overwritten by a zero.  At a '#' the loop
\* "while (c != '\n' || c != '\0')" has no exit: the call never returns.
svm_asm_next_token(x) ==
  IF x.p >= x.source_end THEN [x |-> x, token |-> -1, hang |-> FALSE]
  ELSE LET start == SkipBlanks(x.s, x.p)
       IN  IF x.s[start + 1] = "#" THEN [x |-> x, token |-> -1, hang |-> TRUE]
           ELSE LET stop == SkipToken(x.s, start)
                IN  [x |-> [x EXCEPT !.s[stop + 1] = NUL, !.p = stop + 1],
                     token |-> start, hang |-> FALSE]

TokenStr(x, token) == IF token = -1 THEN NullStr ELSE CStr(x.s, token)

\* (*source)[-1] = ' '; *source = token
svm_asm_rollback_token(x, token) == [x EXCEPT !.s[x.p] = " ", !.p = token]

\* The literal word of an IMM operand: the number the text converts to, or
\* the location of the label of that name, or -1 and a patch to resolve.
AsmEmitImm(xx, token) ==
  Only({LET n     == svm_to_int32(str)
            found == svm_asm_find_label(x, str)
            x1    == IF ~n.ok /\ found = -1
                     THEN svm_asm_add_patch_label(x, str, Len(x.code)) ELSE x
        IN  [svm_asm_push_i32(x1, IF n.ok THEN n.value ELSE found)
               EXCEPT !.lits = @ \cup {Len(x.code)}]
        : x \in {xx}, str \in {TokenStr(xx, token)}})

\* svm_asm's loop body from the emission of the instruction word: ret is
\* left "" for the loop to go on.
AsmEmit(x, op, ext, arg1, arg2, token1, token2) ==
  LET word == svm_instruction_to_int32(svm_pack_instruction(
                op,
                IF ext = EXT_MAX THEN EXT_NONE ELSE ext,
                IF arg1 = ARG_MAX THEN ARG_NONE ELSE arg1,
                IF arg2 = ARG_MAX THEN ARG_NONE ELSE arg2))
  IN  Only({IF arg2 = ARG_IMM THEN AsmEmitImm(x2, token2) ELSE x2
            : x2 \in {IF arg1 = ARG_IMM
                      THEN AsmEmitImm(svm_asm_push_i32(x, word), token1)
                      ELSE svm_asm_push_i32(x, word)}})

\* ... from the second argument; t1 is the first argument's token.
AsmArg2(t1, op, ext, arg1) ==
  LET meta == opcode_meta(op)
  IN  IF meta.arg_count > 1
      THEN Only({
             IF t2.hang THEN [t2.x EXCEPT !.ret = "hang"]
             ELSE IF t2.token = -1
             THEN [t2.x EXCEPT !.ret = "SVM_ASM_ERR_EXPECTED_TOKEN"]
             ELSE IF ~svm_asm_check_constraint(
                        meta.arg2_restrict, svm_str2arg(TokenStr(t2.x, t2.token)))
             THEN [t2.x EXCEPT !.ret = "SVM_ASM_ERR_ARG_CONSTRAINT_UNSATISFIED"]
             ELSE AsmEmit(t2.x, op, ext, arg1,
                          svm_str2arg(TokenStr(t2.x, t2.token)),
                          t1.token, t2.token)
             : t2 \in {svm_asm_next_token(t1.x)}})
      ELSE AsmEmit(t1.x, op, ext, arg1, ARG_NONE, t1.token, -1)

\* ... from the first argument; te is the token read after the mnemonic.
AsmArg1(te, op) ==
  LET meta == opcode_meta(op)
      ext  == svm_str2ext(TokenStr(te.x, te.token))
      none == [x |-> te.x, token |-> -1, hang |-> FALSE]
  IN  Only({
        IF t1.hang THEN [t1.x EXCEPT !.ret = "hang"]
        ELSE IF ext # EXT_NONE /\ meta.arg_count > 0 /\ t1.token = -1
        THEN [t1.x EXCEPT !.ret = "SVM_ASM_ERR_EXPECTED_TOKEN"]
        ELSE IF meta.arg_count > 0
        THEN IF ~svm_asm_check_constraint(
                   meta.arg1_restrict, svm_str2arg(TokenStr(t1.x, t1.token)))
             THEN [t1.x EXCEPT !.ret = "SVM_ASM_ERR_ARG_CONSTRAINT_UNSATISFIED"]
             ELSE AsmArg2(t1, op, ext, svm_str2arg(TokenStr(t1.x, t1.token)))
        ELSE AsmArg2(t1, op, ext, ARG_NONE)
        : t1 \in {IF ext # EXT_NONE
                  THEN IF meta.arg_count > 0 THEN svm_asm_next_token(te.x)
                       ELSE none
                  ELSE IF meta.arg_count = 0
                       THEN [none EXCEPT !.x = svm_asm_rollback_token(te.x, te.token)]
                       ELSE te}})

\* ... from the token after the mnemonic (the extension, or the first
\* argument, or the next line's first token, which is then rolled back).
AsmInstruction(x, op) ==
  Only({IF te.hang THEN [te.x EXCEPT !.ret = "hang"] ELSE AsmArg1(te, op)
        : te \in {svm_asm_next_token(x)}})

RECURSIVE svm_asm(_)
\* while (*source) { ... }.  A token that ends at the buffer's terminating
\* zero leaves source one past the buffer: the byte read there is not the
\* program's, and with either a zero or another value the call returns
\* SVM_ASM_OK (svm_asm_next_token returns NULL past source_end).
svm_asm(xx) ==
  Only({
    IF x.p >= Len(x.s) THEN [x EXCEPT !.ub = TRUE, !.ret = "SVM_ASM_OK"]
    ELSE IF x.s[x.p + 1] = NUL THEN [x EXCEPT !.ret = "SVM_ASM_OK"]
    ELSE IF x.s[x.p + 1] = "#" THEN [x EXCEPT !.ret = "hang"]
    ELSE Only({
           IF t0.hang THEN [x EXCEPT !.ret = "hang"]
           ELSE IF t0.token = -1 THEN [x EXCEPT !.ret = "SVM_ASM_OK"]
           ELSE LET op_str == CStr(t0.x.s, t0.token)
                    op     == svm_str2opcode(op_str)
                IN  IF op = OP_MAX
                    THEN svm_asm(svm_asm_add_label(t0.x, op_str, Len(t0.x.code)))
                    ELSE Only({IF y.ret = "" THEN svm_asm(y) ELSE y
                               : y \in {AsmInstruction(t0.x, op)}})
           : t0 \in {svm_asm_next_token(x)}})
    : x \in {xx}})

\* svm_asm_file on a file that holds text: svm_asm, then the patches.
svm_asm_file(text, kept) ==
  Only({IF x.ret # "SVM_ASM_OK" THEN x ELSE svm_asm_patch_labels(x)
        : x \in {svm_asm(AsmCtx(text, kept))}})

(* ------------------------------------------------------------------ *)
(* The VM                                                              *)
(* ------------------------------------------------------------------ *)
\* vm is the svm_t; heap maps the address of every svm_task_t that has been
\* allocated to its contents.  fault is set when the process has died of an
\* access with undefined behaviour.  last describes the most recent call of
\* the API: its name, the value it returned and, for svm_cycle, what the
\* cycle touched.  asm is the assembler's context.  jumped is the set of
\* the targets JMP and INV have branched to.
VARIABLES vm, heap, fault, last, asm, jumped

vars == <<vm, heap, fault, last, asm, jumped>>

\* vm->code before svm_load (a null pointer)
NoCode ==
  [null |-> TRUE, buffer |-> <<>>, size |-> 0,
   meta |-> [call_stack_size |-> 0, stack_size |-> 0],
   lits |-> {}, labels |-> {}]

\* An svm_code_t.  lits and labels are not part of it: they remember, for an
\* image the assembler produced, which words it emitted as literals and the
\* offsets it bound to labels.
Image(buffer, call_stack_size, stack_size, lits, labels) ==
  [null |-> FALSE, buffer |-> buffer, size |-> Len(buffer),
   meta |-> [call_stack_size |-> call_stack_size, stack_size |-> stack_size],
   lits |-> lits, labels |-> labels]

\* No instruction was fetched.
NoIns == [op |-> -1, ext |-> 0, arg1 |-> 0, arg2 |-> 0]

Call(name, ret) ==
  [call |-> name, ret |-> ret, task |-> NULL, pc0 |-> -1, ins |-> NoIns,
   cond |-> FALSE, branch |-> FALSE,
   reads |-> {}, stk |-> {}, cstk |-> {}, ub |-> FALSE]

\* memset(vm, 0, sizeof(*vm))
svm_init ==
  [flags |-> [running |-> FALSE, task_switch_block |-> FALSE],
   task  |-> [current |-> NULL, head |-> NULL],
   code  |-> NoCode]

RECURSIVE ListTail(_, _)
\* while (tmp->next) tmp = tmp->next
ListTail(h, tmp) == IF h[tmp].next # NULL THEN ListTail(h, h[tmp].next) ELSE tmp

\* svm_malloc(sizeof(svm_task_t)): an address not in use
NewTask(h) ==
  CHOOSE a \in 1..(Cardinality(DOMAIN h) + 1) :
    a \notin DOMAIN h /\ \A b \in 1..(a - 1) : b \in DOMAIN h

\* A machine m is the pair [vm, heap]; each operation returns the machine
\* it leaves and the value it returns.
svm_task_create(m, pc, registers) ==
  LET task == NewTask(m.heap)
      h1   == [a \in (DOMAIN m.heap) \cup {task} |->
                 IF a = task THEN svm_task_init(m.vm.code, pc, registers)
                 ELSE m.heap[a]]
  IN  IF m.vm.task.head # NULL
      THEN [m   |-> [vm |-> m.vm,
                     heap |-> [h1 EXCEPT ![ListTail(m.heap, m.vm.task.head)].next = task]],
            ret |-> "SVM_OK"]
      ELSE [m   |-> [vm |-> [m.vm EXCEPT !.task.head = task], heap |-> h1],
            ret |-> "SVM_OK"]

\* A switch that steps off the end of the list instead of wrapping.
SwitchNoWrap(m) ==
  IF m.vm.flags.task_switch_block
  THEN [m |-> m, ret |-> "SVM_ERR_TASK_SWITCH_BLOCKED"]
  ELSE IF m.vm.task.current = NULL
  THEN [m |-> [m EXCEPT !.vm.task.current = m.vm.task.head], ret |-> "SVM_OK"]
  ELSE [m   |-> [m EXCEPT !.vm.task.current = m.heap[m.vm.task.current].next],
        ret |-> "SVM_OK"]

\* A switch that does not look at the block flag.
SwitchUnblocked(m) ==
  IF m.vm.task.current = NULL
  THEN [m |-> [m EXCEPT !.vm.task.current = m.vm.task.head], ret |-> "SVM_OK"]
  ELSE LET n == m.heap[m.vm.task.current].next
       IN  [m   |-> [m EXCEPT !.vm.task.current =
                                 IF n = NULL THEN m.vm.task.head ELSE n],
            ret |-> "SVM_OK"]

svm_task_switch(m) ==
  IF m.vm.flags.task_switch_block
  THEN [m |-> m, ret |-> "SVM_ERR_TASK_SWITCH_BLOCKED"]
  ELSE IF m.vm.task.current = NULL
  THEN [m |-> [m EXCEPT !.vm.task.current = m.vm.task.head], ret |-> "SVM_OK"]
  ELSE LET n == m.heap[m.vm.task.current].next
       IN  [m   |-> [m EXCEPT !.vm.task.current =
                                 IF n = NULL THEN m.vm.task.head ELSE n],
            ret |-> "SVM_OK"]

svm_load(m, cd) ==
  LET m1 == [m EXCEPT !.vm.code = cd]
      r2 == svm_task_create(m1, 0, ZeroRegisters)
  IN  IF r2.ret # "SVM_OK" THEN r2
      ELSE svm_task_switch([r2.m EXCEPT !.vm.flags.running = TRUE])

svm_task_block(m, block) ==
  [m |-> [m EXCEPT !.vm.flags.task_switch_block = block], ret |-> "SVM_OK"]

\* "TODO: release all allocated resources"
svm_unload(m) == [m |-> m, ret |-> "SVM_OK"]

\* svm_deinit(vm) returns svm_unload(vm).
svm_deinit(m) == svm_unload(m)

\* A buffer that has been passed to svm_free: the pointer dangles.
FreedMem == [i \in {-1} |-> 0]

\* svm_task_deinit(task) frees the two stack buffers; the svm_task_t
\* itself is not freed and keeps its fields, next included.
svm_task_deinit(t) ==
  [t EXCEPT !.call_stack.buffer = FreedMem, !.stack.buffer = FreedMem]

\* svm_task_remove(vm, task).  For a task other than head the loop walks
\* tmp from head->next and leaves it only when task->next == task or at the
\* end of the list; head->next is read without a test of head.
svm_task_remove(m, task) ==
  IF m.vm.task.head = task
  THEN [m   |-> [vm   |-> [m.vm EXCEPT !.task.head = m.heap[task].next],
                 heap |-> [m.heap EXCEPT ![task] = svm_task_deinit(@)]],
        ret |-> "SVM_OK", ub |-> FALSE]
  ELSE IF m.vm.task.head = NULL
  THEN [m |-> m, ret |-> "SVM_ERR_TASK_NOT_FOUND", ub |-> TRUE]
  ELSE LET first == m.heap[m.vm.task.head].next
           tmp   == IF first # NULL /\ m.heap[task].next = task
                    THEN first ELSE NULL
       IN  IF tmp = NULL
           THEN [m |-> m, ret |-> "SVM_ERR_TASK_NOT_FOUND", ub |-> FALSE]
           ELSE [m   |-> [vm   |-> m.vm,
                          heap |-> [[m.heap EXCEPT ![tmp].next = m.heap[task].next]
                                      EXCEPT ![task] = svm_task_deinit(@)]],
                 ret |-> "SVM_OK", ub |-> FALSE]

(* ------------------------------------------------------------------ *)
(* Actions: the calls a host makes                                     *)
(* ------------------------------------------------------------------ *)
Machine == [vm |-> vm, heap |-> heap]

Returns(r, name) ==
  /\ vm' = r.m.vm
  /\ heap' = r.m.heap
  /\ last' = Call(name, r.ret)
  /\ UNCHANGED <<fault, asm, jumped>>

\* The process dies (a trap on an access with undefined behaviour).
Faults(name) ==
  /\ fault' = TRUE
  /\ last' = Call(name, "fault")
  /\ UNCHANGED <<vm, heap, asm, jumped>>

\* svm_load(vm, code) with an image of the set Imgs.  It allocates a task.
Load(Imgs) ==
  /\ ~fault
  /\ Cardinality(DOMAIN heap) < MaxTasks
  /\ \E cd \in Imgs : Returns(svm_load(Machine, cd), "svm_load")

\* svm_cycle(vm).  With running set and no current task the first access
\* is through a null pointer.
Cycle ==
  /\ ~fault
  /\ IF vm.flags.running /\ vm.task.current = NULL
     THEN Faults("svm_cycle")
     ELSE LET cur == vm.task.current
              t   == IF cur = NULL THEN svm_task_init(NoCode, 0, ZeroRegisters)
                     ELSE heap[cur]
          IN  \E r \in svm_cycle(vm.flags.running, t, vm.code) :
                \/ /\ r.ub
                   /\ Faults("svm_cycle")
                \/ /\ vm' = [vm EXCEPT !.flags.running = r.running]
                   /\ heap' = IF cur = NULL THEN heap
                              ELSE [heap EXCEPT ![cur] = r.t]
                   /\ last' = [call |-> "svm_cycle", ret |-> r.ret, task |-> NULL,
                               pc0 |-> IF cur = NULL THEN -1 ELSE t.pc,
                               ins |-> IF r.reads = {} THEN NoIns
                                       ELSE DecodeInstruction(vm.code.buffer[t.pc + 1]),
                               cond |-> r.cond, branch |-> r.branch,
                               reads |-> r.reads, stk |-> r.stk,
                               cstk |-> r.cstk, ub |-> r.ub]
                   /\ jumped' = IF r.branch /\ r.reads # {}
                                    /\ DecodeInstruction(vm.code.buffer[t.pc + 1]).op
                                         \in {OP_JMP, OP_INV}
                                 THEN jumped \cup {r.t.pc} ELSE jumped
                   /\ UNCHANGED <<fault, asm>>

Init ==
  /\ vm = svm_init
  /\ heap = [a \in {} |-> 0]
  /\ fault = FALSE
  /\ last = Call("svm_init", "SVM_OK")
  /\ asm = NoAsm
  /\ jumped = {}

(* ------------------------------------------------------------------ *)
(* SpecCycle: every instruction word, one cycle at a time              *)
(* ------------------------------------------------------------------ *)
W(op, ext, arg1, arg2) ==
  svm_instruction_to_int32(svm_pack_instruction(op, ext, arg1, arg2))

\* The instruction words put under test: every opcode and one byte that is
\* no opcode, with and without a predicate, and every kind of operand.
TestOps  == 0..OP_MAX
TestExts == {EXT_NONE, EXT_EQ, EXT_Z, EXT_MAX}
TestArgs == {ARG_NONE, ARG_R0, ARG_R1, ARG_IMM, ARG_MAX}
TestWords ==
  {W(op, ext, a1, a2) : op \in TestOps, ext \in TestExts,
                        a1 \in TestArgs, a2 \in TestArgs}

\* The words that follow the instruction under test: none, one or two.
TestValues == {0, 5, 7, -1}
TestTails ==
  {<<>>} \cup {<<a>> : a \in TestValues} \cup {<<a, 5>> : a \in TestValues}

\* Programs that bring task 0 to the state the instruction under test starts
\* from: a fresh task; a task after "mov r0 5"; a task with values in R0 and
\* R1, some flags set, and one entry on each stack; a task whose two stacks
\* are full.
PrologueFresh == <<>>

PrologueMov == <<W(OP_MOV, EXT_NONE, ARG_R0, ARG_IMM), 5>>

PrologueMid ==
  <<W(OP_MOV, EXT_NONE, ARG_R0, ARG_IMM), 5,
    W(OP_MOV, EXT_NONE, ARG_R1, ARG_IMM), -1,
    W(OP_CMP, EXT_NONE, ARG_R0, ARG_R0),
    W(OP_PUSH, EXT_NONE, ARG_R0, ARG_NONE),
    W(OP_INV, EXT_NONE, ARG_IMM, ARG_NONE), 8>>

PrologueFull ==
  <<W(OP_MOV, EXT_NONE, ARG_R0, ARG_R0),
    W(OP_PUSH, EXT_NONE, ARG_R0, 8),
    W(OP_INV, EXT_NONE, ARG_IMM, ARG_NONE), 4,
    W(OP_INV, EXT_NONE, ARG_IMM, ARG_NONE), 6,
    W(OP_INV, EXT_NONE, ARG_IMM, ARG_NONE), 8>>

Prologues == {PrologueFresh, PrologueMov, PrologueMid, PrologueFull}

\* Stack sizes of the images under test (code metadata).
TestCallStackSize == 4
TestStackSize == 8

CycleImages ==
  {Image(p \o <<w>> \o tl, TestCallStackSize, TestStackSize, {}, {})
   : p \in Prologues, w \in TestWords, tl \in TestTails}

\* The host of SpecCycle loads one image into a VM it has just initialised.
LoadCycleImage == vm.code.null /\ Load(CycleImages)

NextCycle == LoadCycleImage \/ Cycle

SpecCycle == Init /\ [][NextCycle]_vars

(* ------------------------------------------------------------------ *)
(* Spec: a host that assembles a source or takes a ready image, loads  *)
(* it, creates tasks, switches between them and runs cycles            *)
(* ------------------------------------------------------------------ *)
\* "end"
SrcEnd ==
  <<"e", "n", "d", "\n">>

\* "mov r0 5 / cmp r0 7 / mov.eq r0 99 / end"
SrcCompare ==
  <<"m", "o", "v", " ", "r", "0", " ", "5", "\n", "c", "m", "p", " ", "r",
    "0", " ", "7", "\n", "m", "o", "v", ".", "e", "q", " ", "r", "0", " ",
    "9", "9", "\n", "e", "n", "d", "\n">>

\* "mov.eq 5 r0 / end": an immediate as first operand
SrcImmFirst ==
  <<"m", "o", "v", ".", "e", "q", " ", "5", " ", "r", "0", "\n", "e", "n",
    "d", "\n">>

\* "jmp skip / mov r0 5 / skip / cmp r0 r0 / clf.eq / clf / end"
SrcJump ==
  <<"j", "m", "p", " ", "s", "k", "i", "p", "\n", "m", "o", "v", " ", "r",
    "0", " ", "5", "\n", "s", "k", "i", "p", "\n", "c", "m", "p", " ", "r",
    "0", " ", "r", "0", "\n", "c", "l", "f", ".", "e", "q", "\n", "c", "l",
    "f", "\n", "e", "n", "d", "\n">>

\* "# c / end": a comment line
SrcComment ==
  <<"#", " ", "c", "\n", "e", "n", "d", "\n">>

\* "end" with no newline at the end of the file
SrcNoNewline ==
  <<"e", "n", "d">>

\* "mov r0": an operand is missing
SrcMissingArg ==
  <<"m", "o", "v", " ", "r", "0", "\n">>

\* "jmp bad / end": an operand that names a label nothing defines
SrcHexName ==
  <<"j", "m", "p", " ", "b", "a", "d", "\n", "e", "n", "d", "\n">>

\* "jmp later / mov r0 1 / later: / mov r0 7 / end"
SrcLater ==
  <<"j", "m", "p", " ", "l", "a", "t", "e", "r", "\n", "m", "o", "v", " ",
    "r", "0", " ", "1", "\n", "l", "a", "t", "e", "r", ":", "\n", "m", "o",
    "v", " ", "r", "0", " ", "7", "\n", "e", "n", "d", "\n">>

\* "cmp 5 r0 / mov 5 r0 / end": an immediate as first operand, no predicate
SrcImmOperands ==
  <<"c", "m", "p", " ", "5", " ", "r", "0", "\n", "m", "o", "v", " ", "5",
    " ", "r", "0", "\n", "e", "n", "d", "\n">>

\* "push r0 / end"
SrcPush ==
  <<"p", "u", "s", "h", " ", "r", "0", "\n", "e", "n", "d", "\n">>

Sources ==
  {SrcEnd, SrcCompare, SrcImmFirst, SrcJump, SrcComment, SrcNoNewline,
   SrcMissingArg, SrcHexName, SrcLater, SrcImmOperands, SrcPush}

\* The svm_code_t a host makes of the assembler's output (meta is zero).
AssembledImage(x) ==
  Image(x.code, 0, 0, x.lits,
        {x.labels.buffer[i].location : i \in 1..Len(x.labels.buffer)})

\* The opcodes that take a second operand.
TwoOperandOps == AluOps \cup {OP_CMP, OP_PUSH, OP_POP}

\* Instruction words of the images a host builds itself: every opcode (and
\* one byte that is no opcode) on R0, the opcodes that take a second operand
\* with R0 and with R1.
RawWords ==
  {W(op, EXT_NONE, ARG_R0, a2) : op \in TwoOperandOps, a2 \in {ARG_R0, ARG_R1}}
    \cup {W(op, EXT_NONE, ARG_R0, ARG_NONE) : op \in TestOps \ TwoOperandOps}

\* Images a host builds itself: a task with values in R0 and R1, flags set
\* and an entry on each stack, followed by one instruction.
RawImages ==
  {Image(PrologueMid \o <<w>>, TestCallStackSize, TestStackSize, {}, {})
   : w \in RawWords}

\* Where the host starts the tasks it creates.
TaskEntryPoints == {0, 8}

\* svm_asm_file(&ctx, filename), once, before anything is loaded.  asm.s is
\* the source buffer as svm_asm left it.  A run in which the tables lose
\* what was written outside them is one in which something was.  Of a call
\* that does not return, asm keeps the source it was given and whether it
\* ran into the loop without exit ("hang") or died of a write ("fault").
AsmFile ==
  /\ ~fault /\ asm.ret = "none" /\ vm.code.null
  /\ \E text \in Sources, kept \in BOOLEAN :
       \E x \in {svm_asm_file(text, kept)} :
         \/ /\ kept
            /\ x.ret = "hang" \/ x.ub
            /\ fault' = TRUE
            /\ asm' = [NoAsm EXCEPT !.s = Append(text, NUL),
                                    !.ret = IF x.ret = "hang" THEN "hang" ELSE "fault"]
            /\ last' = Call("svm_asm_file", "fault")
            /\ UNCHANGED <<vm, heap, jumped>>
         \/ /\ x.ret # "hang"
            /\ kept \/ x # [svm_asm_file(text, TRUE) EXCEPT !.kept = FALSE]
            /\ asm' = x
            /\ last' = Call("svm_asm_file", x.ret)
            /\ UNCHANGED <<vm, heap, fault, jumped>>

\* svm_load of what the assembler produced.
LoadAsm ==
  /\ vm.code.null /\ asm.ret = "SVM_ASM_OK"
  /\ Load({AssembledImage(asm)})

\* svm_load of an image the host built.
LoadRaw ==
  /\ vm.code.null /\ asm.ret = "none"
  /\ Load(RawImages)

\* svm_load of the same image again, once the VM has stopped.
Reload ==
  /\ ~vm.code.null /\ ~vm.flags.running
  /\ Load({vm.code})

\* svm_task_create(vm, pc, &registers); before svm_load vm->code is null.
TaskCreate ==
  /\ ~fault
  /\ Cardinality(DOMAIN heap) < MaxTasks
  /\ IF vm.code.null THEN Faults("svm_task_create")
     ELSE \E pc \in TaskEntryPoints :
            Returns(svm_task_create(Machine, pc, ZeroRegisters), "svm_task_create")

TaskSwitch == ~fault /\ Returns(svm_task_switch(Machine), "svm_task_switch")

TaskBlock ==
  /\ ~fault
  /\ \E block \in BOOLEAN :
       Returns(svm_task_block(Machine, block), "svm_task_block")

Unload == ~fault /\ Returns(svm_unload(Machine), "svm_unload")

Next ==
  \/ AsmFile
  \/ LoadAsm
  \/ LoadRaw
  \/ Reload
  \/ Cycle
  \/ TaskCreate
  \/ TaskSwitch
  \/ TaskBlock
  \/ Unload

Spec == Init /\ [][Next]_vars

(* ------------------------------------------------------------------ *)
(* SpecFlags: tasks that reach a CLF with different flags set          *)
(* ------------------------------------------------------------------ *)
\* "mov r0 5 / cmp r0 7 / cmp r0 r0 / cmp r0 r1 / mov r2 r3": run from the
\* start it sets all eight flags, entered later it sets some of them.
FlagPrologue ==
  <<W(OP_MOV, EXT_NONE, ARG_R0, ARG_IMM), 5,
    W(OP_CMP, EXT_NONE, ARG_R0, ARG_IMM), 7,
    W(OP_CMP, EXT_NONE, ARG_R0, ARG_R0),
    W(OP_CMP, EXT_NONE, ARG_R0, ARG_R1),
    W(OP_MOV, EXT_NONE, ARG_R2, ARG_R2 + 1)>>

\* The prologue followed by a CLF with each suffix.
FlagImages ==
  {Image(FlagPrologue \o <<W(OP_CLF, ext, ARG_NONE, ARG_NONE)>>,
         TestCallStackSize, TestStackSize, {}, {})
   : ext \in EXT_NONE..EXT_Z}

\* Where the host starts the tasks it creates: the start, the third
\* instruction and the CLF.
FlagEntryPoints == {0, 4, Len(FlagPrologue)}

LoadFlagImage == vm.code.null /\ Load(FlagImages)

FlagTaskCreate ==
  /\ ~fault /\ ~vm.code.null
  /\ Cardinality(DOMAIN heap) < MaxTasks
  /\ \E pc \in FlagEntryPoints :
       Returns(svm_task_create(Machine, pc, ZeroRegisters), "svm_task_create")

NextFlags ==
  \/ LoadFlagImage
  \/ FlagTaskCreate
  \/ TaskSwitch
  \/ Cycle

SpecFlags == Init /\ [][NextFlags]_vars

(* ------------------------------------------------------------------ *)
(* SpecStack: every short program of stack instructions                *)
(* ------------------------------------------------------------------ *)
\* "mov r0 1 / mov r1 2 / mov r2 3"
StackPrefix ==
  <<W(OP_MOV, EXT_NONE, ARG_R0, ARG_IMM), 1,
    W(OP_MOV, EXT_NONE, ARG_R1, ARG_IMM), 2,
    W(OP_MOV, EXT_NONE, ARG_R2, ARG_IMM), 3>>

\* push 5 / push r0 / push r0 r1 / push r0 r2
PushImm  == <<W(OP_PUSH, EXT_NONE, ARG_IMM, ARG_NONE), 5>>
PushR0   == <<W(OP_PUSH, EXT_NONE, ARG_R0, ARG_NONE)>>
PushR0R1 == <<W(OP_PUSH, EXT_NONE, ARG_R0, ARG_R1)>>
PushR0R2 == <<W(OP_PUSH, EXT_NONE, ARG_R0, ARG_R2)>>

\* pop r1 / pop r0 r1 / pop r0 r2
PopR1    == <<W(OP_POP, EXT_NONE, ARG_R1, ARG_NONE)>>
PopR0R1  == <<W(OP_POP, EXT_NONE, ARG_R0, ARG_R1)>>
PopR0R2  == <<W(OP_POP, EXT_NONE, ARG_R0, ARG_R2)>>

\* Instructions that overwrite registers or flags and leave the stack
\* alone: mov r0 0 / mov r1 r0 / clf
MovR0    == <<W(OP_MOV, EXT_NONE, ARG_R0, ARG_IMM), 0>>
MovR1    == <<W(OP_MOV, EXT_NONE, ARG_R1, ARG_R0)>>
Clf      == <<W(OP_CLF, EXT_NONE, ARG_NONE, ARG_NONE)>>

Clobbers == {MovR0, MovR1, Clf}

StackInstrs ==
  {PushImm, PushR0, PushR0R1, PushR0R2, PopR1, PopR0R1, PopR0R2} \cup Clobbers

\* Longest program, in instructions.
MaxProgramLen == 3

RECURSIVE Programs(_, _)
\* The sequences of at most n instructions of the set Instrs.
Programs(Instrs, n) ==
  IF n = 0 THEN {<<>>}
  ELSE LET shorter == Programs(Instrs, n - 1)
       IN  shorter \cup {p \o i : p \in shorter, i \in Instrs}

\* Data stack sizes of the images (code metadata): one that leaves no room
\* for a second value, a small one and the one of SpecCycle.
MinStackSize == 1
SmallStackSize == 4
StackSizes == {MinStackSize, SmallStackSize, TestStackSize}

StackImages ==
  {Image(StackPrefix \o body, TestCallStackSize, size, {}, {})
   : body \in Programs(StackInstrs, MaxProgramLen), size \in StackSizes}

LoadStackImage == vm.code.null /\ Load(StackImages)

NextStack == LoadStackImage \/ Cycle

SpecStack == Init /\ [][NextStack]_vars

(* ------------------------------------------------------------------ *)
(* SpecTasks: a host that creates, switches, blocks and removes tasks   *)
(* ------------------------------------------------------------------ *)
\* "mov r0 5 / push r0 / end", which a task enters at 0 or at the PUSH.
TaskProgram ==
  <<W(OP_MOV, EXT_NONE, ARG_R0, ARG_IMM), 5,
    W(OP_PUSH, EXT_NONE, ARG_R0, ARG_NONE),
    W(OP_END, EXT_NONE, ARG_NONE, ARG_NONE)>>

\* The program with stack sizes in its metadata, and with none.
TaskImages ==
  {Image(TaskProgram, TestCallStackSize, TestStackSize, {}, {}),
   Image(TaskProgram, 0, 0, {}, {})}

RingEntryPoints == {0, 2}

\* Number of svm_task_t the host allocates in all (svm_task_remove frees
\* none of them).
MaxRingTasks == 3

LoadTaskImage == vm.code.null /\ Load(TaskImages)

\* svm_task_create(vm, pc, &registers) on a loaded VM.
RingTaskCreate ==
  /\ ~fault /\ ~vm.code.null
  /\ Cardinality(DOMAIN heap) < MaxRingTasks
  /\ \E pc \in RingEntryPoints :
       Returns(svm_task_create(Machine, pc, ZeroRegisters), "svm_task_create")

\* svm_task_remove(vm, task) with a task the host holds a pointer to, in
\* the list or removed from it before.  The host keeps to the API's rule
\* and never passes the task that is current.
TaskRemove ==
  /\ ~fault
  /\ \E task \in (DOMAIN heap) \ {vm.task.current} :
       LET r == svm_task_remove(Machine, task)
       IN  IF r.ub THEN Faults("svm_task_remove")
           ELSE /\ vm' = r.m.vm
                /\ heap' = r.m.heap
                /\ last' = [Call("svm_task_remove", r.ret) EXCEPT !.task = task]
                /\ UNCHANGED <<fault, asm, jumped>>

NextTasks ==
  \/ LoadTaskImage
  \/ RingTaskCreate
  \/ TaskSwitch
  \/ TaskBlock
  \/ TaskRemove
  \/ Cycle

SpecTasks == Init /\ [][NextTasks]_vars

(* ------------------------------------------------------------------ *)
(* SpecPack: a host that packs one instruction, loads it and runs it    *)
(* ------------------------------------------------------------------ *)
\* svm_pack_instruction and svm_instruction_to_int32 for every opcode,
\* extension and argument type of the enumerations, then svm_load of the
\* one-word image; last.ins remembers the struct that was packed.
LoadPacked ==
  /\ ~fault /\ vm.code.null
  /\ \E op \in 0..(OP_MAX - 1), ext \in 0..(EXT_MAX - 1),
        arg1 \in 0..(ARG_MAX - 1), arg2 \in 0..(ARG_MAX - 1) :
       LET ins == svm_pack_instruction(op, ext, arg1, arg2)
           cd  == Image(<<svm_instruction_to_int32(ins)>>,
                        TestCallStackSize, TestStackSize, {}, {})
           r   == svm_load(Machine, cd)
       IN  /\ vm' = r.m.vm
           /\ heap' = r.m.heap
           /\ last' = [Call("svm_load", r.ret) EXCEPT !.ins = ins]
           /\ UNCHANGED <<fault, asm, jumped>>

NextPack == LoadPacked \/ Cycle

SpecPack == Init /\ [][NextPack]_vars

(* ------------------------------------------------------------------ *)
(* SpecToInt32: svm_to_int32 on every short token                      *)
(* ------------------------------------------------------------------ *)
\* The longest token converted.
MaxTokenLen == 3

\* The strings converted: the tokens of up to MaxTokenLen characters made of
\* decimal digits, letters that are hexadecimal digits, the letters of the
\* two prefixes and a letter that is neither.
Tokens ==
  UNION {[1..n -> {"0", "1", "9", "b", "f", "g", "x"}] : n \in 1..MaxTokenLen}

\* bool ok = svm_to_int32(str, &value)
ToInt32 ==
  /\ \E str \in Tokens :
       LET r == svm_to_int32(str)
       IN  last' = [str |-> str, value |-> r.value]
                     @@ Call("svm_to_int32", IF r.ok THEN "true" ELSE "false")
  /\ UNCHANGED <<vm, heap, fault, asm, jumped>>

SpecToInt32 == Init /\ [][ToInt32]_vars

(* ================================================================== *)
(* Properties                                                          *)
(* ================================================================== *)
\* The current task, in a state that has one.
HasCur == vm.task.current # NULL
Cur == heap[vm.task.current]

\* The last call was an svm_cycle that returned (the process did not die).
Cycled == last.call = "svm_cycle" /\ last.ret # "fault"

\* This step is a call of svm_cycle that returns, on a current task.
CycleStep ==
  /\ last'.call = "svm_cycle" /\ last'.ret # "fault"
  /\ HasCur /\ vm'.task.current = vm.task.current

\* The instruction word the next cycle fetches.
WillFetch == vm.flags.running /\ HasCur /\ InCode(vm.code, Cur.pc)
NextIns == DecodeInstruction(vm.code.buffer[Cur.pc + 1])

\* Two task contexts that differ at most in pc.
SameButPc(t1, t2) == [t1 EXCEPT !.pc = 0] = [t2 EXCEPT !.pc = 0]

StructuralErrors ==
  {"SVM_ERR_ARG_NOT_REG", "SVM_ERR_PUSH_ARG_BAD_ORDER", "SVM_ERR_JMP_OVERFLOW",
   "SVM_ERR_CALL_STK_OVERFLOW", "SVM_ERR_CALL_STK_UNDERFLOW",
   "SVM_ERR_STK_OVERFLOW", "SVM_ERR_STK_UNDERFLOW",
   "SVM_ERR_UNKNOWN_INSTRUCTION"}

\* Number of operands of an instruction whose type is IMM.
ImmCount(ins) ==
  (IF ins.arg1 = ARG_IMM THEN 1 ELSE 0) + (IF ins.arg2 = ARG_IMM THEN 1 ELSE 0)

(* ------------------------------------------------------------------ *)
\* C1 (as claimed): every svm_cycle that returns a value other than SVM_OK
\* leaves the current task's pc equal to its value before the call.  (Stated
\* for the cycles in which every access is defined.)
C1_ErrorLeavesPc ==
  (Cycled /\ HasCur /\ ~last.ub /\ last.ret # "SVM_OK") => Cur.pc = last.pc0

\* C1 (amended): svm_cycle returning NOT_RUNNING or CODE_OVERFLOW leaves pc
\* unchanged; returning any other error it has fetched the instruction, and
\* pc is just past the instruction word and the literal words read before
\* the failure: one or two words further than before the call.
C1_ErrorPcAdvance ==
  (Cycled /\ HasCur /\ last.ret # "SVM_OK") =>
     IF last.ret \in {"SVM_ERR_NOT_RUNNING", "SVM_ERR_CODE_OVERFLOW"}
     THEN Cur.pc = last.pc0
     ELSE /\ Cur.pc - last.pc0 \in 1..2
          /\ last.reads = last.pc0 .. (Cur.pc - 1)
          /\ Cur.pc - last.pc0 <= 1 + ImmCount(last.ins)

\* C1 witness: an error returned after a literal word was consumed.
C1_Witness ==
  /\ Cycled /\ HasCur
  /\ last.ret = "SVM_ERR_ARG_NOT_REG"
  /\ Cur.pc = last.pc0 + 2

(* ------------------------------------------------------------------ *)
\* C2 (as claimed): when svm_cycle returns a structural error, the current
\* task's registers, flags, sp, rpc and the contents of both stacks are what
\* they were before the call; only pc may differ.  (Stated for the cycles in
\* which every access is defined.)
C2_ErrorKeepsTaskState ==
  [][(CycleStep /\ ~last'.ub /\ last'.ret \in StructuralErrors)
       => SameButPc(Cur, heap'[vm.task.current])]_vars

(* ------------------------------------------------------------------ *)
\* C3 (as claimed): a cycle that returns SVM_OK and takes no branch advances
\* pc by exactly 1 plus the number of IMM operands among arg1 and arg2, for
\* every instruction word and either outcome of its predicate.  (Stated for
\* the cycles in which every access is defined.)
C3_PcAdvance ==
  (Cycled /\ HasCur /\ ~last.ub /\ last.ret = "SVM_OK" /\ ~last.branch) =>
     Cur.pc = last.pc0 + 1 + ImmCount(last.ins)

(* ------------------------------------------------------------------ *)
\* C4 (as claimed): every task's pc is within 0..code.size, and no cycle
\* reads a code word at an index >= code.size.
C4_PcInBounds ==
  /\ \A a \in DOMAIN heap : 0 <= heap[a].pc /\ heap[a].pc <= vm.code.size
  /\ Cycled => \A i \in last.reads : 0 <= i /\ i < vm.code.size

(* ------------------------------------------------------------------ *)
\* The VM runs an image the assembler produced.
RunsAssembled == ~vm.code.null /\ asm.ret = "SVM_ASM_OK"

\* C5 (as claimed): in an execution of an assembled image in which every
\* target a JMP or INV has branched to is the offset of a label, the word
\* fetched as an instruction is never one the assembler emitted as a
\* literal.  (Stated for the task svm_load created, which starts at 0.)
C5_NoLiteralFetched ==
  (/\ Cycled /\ last.reads # {} /\ RunsAssembled
   /\ vm.task.current = vm.task.head
   /\ jumped \subseteq vm.code.labels)
  => last.pc0 \notin vm.code.lits

(* ------------------------------------------------------------------ *)
PredicatedOps == AluOps \cup {OP_PUSH, OP_POP, OP_JMP, OP_INV}

\* The flag a predicate suffix names, read from the task's flag bits.
FlagOf(t, ext) ==
  <<t.flags.eq, t.flags.ne, t.flags.lt, t.flags.le,
    t.flags.gt, t.flags.ge, t.flags.nz, t.flags.z>>[ext]

\* The image with the predicate suffix of the word at pc removed.
Unpredicated(cd, pc) ==
  [cd EXCEPT !.buffer[pc + 1] =
     svm_instruction_to_int32(
       [DecodeInstruction(cd.buffer[pc + 1]) EXCEPT !.ext = EXT_NONE])]

\* The value of a register or in-image literal operand of the word at pc;
\* k is the number of literal words that precede the operand's own.
OperandValue(t, cd, type, k) ==
  IF type = ARG_IMM THEN cd.buffer[t.pc + 2 + k] ELSE t.registers[type - 1]

OperandDefined(t, cd, type, k) ==
  \/ type \in ARG_R0..ARG_R15
  \/ type = ARG_IMM /\ InCode(cd, t.pc + 1 + k)

\* C6: for MOV, ADD..SHR, PUSH, POP, JMP and INV with a predicate suffix
\* whose flag is clear, the cycle returns SVM_OK, takes no branch and leaves
\* everything of the task but pc unchanged (and the VM running); with no
\* suffix or a set flag the cycle does what the same word without suffix
\* does, and a MOV into a register from a register or literal leaves the
\* source value there.
C6_Predication ==
  [][(CycleStep /\ WillFetch /\ NextIns.op \in PredicatedOps
        /\ NextIns.ext \in EXT_NONE..EXT_Z)
     => LET t   == Cur
            t2  == heap'[vm.task.current]
            ins == NextIns
        IN  IF ins.ext # EXT_NONE /\ ~FlagOf(t, ins.ext)
            THEN /\ last'.ret = "SVM_OK"
                 /\ ~last'.branch
                 /\ SameButPc(t, t2)
                 /\ vm'.flags.running
            ELSE /\ \E r \in svm_cycle(TRUE, t, Unpredicated(vm.code, t.pc)) :
                       r.t = t2 /\ r.ret = last'.ret /\ r.branch = last'.branch
                 /\ (ins.op = OP_MOV /\ ins.arg1 \in ARG_R0..ARG_R15
                       /\ OperandDefined(t, vm.code, ins.arg2, 0))
                    => /\ last'.ret = "SVM_OK"
                       /\ t2.registers[ins.arg1 - 1]
                            = OperandValue(t, vm.code, ins.arg2, 0)]_vars

\* C6 witness: a MOV with suffix .eq and a literal source has just been
\* suppressed (EQ is clear), and a MOV without suffix has just written.
C6_Witness ==
  /\ Cycled /\ HasCur /\ last.ret = "SVM_OK"
  /\ last.ins.op = OP_MOV /\ last.ins.ext = EXT_EQ
  /\ last.ins.arg1 = ARG_R1 /\ last.ins.arg2 = ARG_IMM
  /\ ~Cur.flags.eq /\ ~last.cond
  /\ Cur.registers[0] = 5 /\ Cur.registers[1] = 0
  /\ Cur.pc = last.pc0 + 2

(* ------------------------------------------------------------------ *)
TerminalErrors == {"SVM_ERR_NOT_RUNNING", "SVM_ERR_CODE_OVERFLOW"}

\* The previous call was an svm_cycle that returned an error other than
\* NOT_RUNNING and CODE_OVERFLOW.
AfterOtherError ==
  Cycled /\ last.ret \notin TerminalErrors \cup {"SVM_OK"}

\* svm_cycle clears running only on END or on pc >= code.size before fetch.
RunningClearedOnlyAtEnd ==
  (CycleStep /\ vm.flags.running /\ ~vm'.flags.running)
    => \/ ~InCode(vm.code, Cur.pc) /\ last'.ret = "SVM_ERR_CODE_OVERFLOW"
       \/ InCode(vm.code, Cur.pc) /\ NextIns.op = OP_END /\ last'.ret = "SVM_OK"

\* C7 (as claimed): svm_cycle clears running only when it executes END or
\* sees pc >= code.size before fetch; after any other error the VM is still
\* running and the next svm_cycle call fetches and executes a word.
C7_ErrorKeepsRunning ==
  [][/\ RunningClearedOnlyAtEnd
     /\ (AfterOtherError /\ HasCur) => vm.flags.running
     /\ (AfterOtherError /\ CycleStep) => Cur.pc \in last'.reads]_vars

\* C7 (amended): svm_cycle clears running only when it executes END or sees
\* pc >= code.size before fetch; after any other error the VM is still
\* running, and the next svm_cycle call fetches the word at pc when
\* pc < code.size and otherwise returns CODE_OVERFLOW and stops the VM.
C7_ErrorKeepsRunningInCode ==
  [][/\ RunningClearedOnlyAtEnd
     /\ (AfterOtherError /\ HasCur) => vm.flags.running
     /\ (AfterOtherError /\ CycleStep) =>
          IF InCode(vm.code, Cur.pc)
          THEN Cur.pc \in last'.reads /\ last'.ret # "SVM_ERR_NOT_RUNNING"
          ELSE /\ last'.ret = "SVM_ERR_CODE_OVERFLOW"
               /\ last'.reads = {}
               /\ ~vm'.flags.running]_vars

\* C7 witness: a cycle has returned an error, the VM is still running and
\* there is a word left to fetch.
C7_Witness ==
  /\ AfterOtherError /\ HasCur
  /\ last.ret = "SVM_ERR_CALL_STK_UNDERFLOW"
  /\ vm.flags.running
  /\ InCode(vm.code, Cur.pc)

(* ------------------------------------------------------------------ *)
\* This step is a call of svm_cycle that returns.
CycleCall == last'.call = "svm_cycle" /\ last'.ret # "fault"

\* C8: a cycle that executes END leaves running false; while running is
\* false every svm_cycle call returns NOT_RUNNING and changes nothing of
\* the VM or of any task; and only svm_load sets running again.
C8_EndStops ==
  [][/\ (CycleStep /\ WillFetch /\ NextIns.op = OP_END)
          => last'.ret = "SVM_OK" /\ ~vm'.flags.running
     /\ (CycleCall /\ ~vm.flags.running)
          => /\ last'.ret = "SVM_ERR_NOT_RUNNING"
             /\ vm' = vm /\ heap' = heap
     /\ (~vm.flags.running /\ vm'.flags.running)
          => last'.call = "svm_load"]_vars

\* C8 witness: the program "end" was assembled to the one word 1 and
\* loaded; its one cycle ran, and a further svm_cycle has returned
\* NOT_RUNNING.
C8_Witness ==
  /\ asm.ret = "SVM_ASM_OK" /\ asm.code = <<1>>
  /\ vm.code.buffer = <<1>>
  /\ HasCur /\ Cur.pc = 1
  /\ ~vm.flags.running
  /\ Cycled /\ last.ret = "SVM_ERR_NOT_RUNNING"

(* ------------------------------------------------------------------ *)
FlagNames == {"eq", "ne", "lt", "le", "gt", "ge", "nz", "z"}

\* The predicate suffix that names a flag.
ExtOfFlag ==
  [eq |-> EXT_EQ, ne |-> EXT_NE, lt |-> EXT_LT, le |-> EXT_LE,
   gt |-> EXT_GT, ge |-> EXT_GE, nz |-> EXT_NZ, z |-> EXT_Z]

C10_CmpFlags ==
  [][(CycleStep /\ WillFetch /\ NextIns.op = OP_CMP
        /\ OperandDefined(Cur, vm.code, NextIns.arg1, 0)
        /\ OperandDefined(Cur, vm.code, NextIns.arg2,
                          IF NextIns.arg1 = ARG_IMM THEN 1 ELSE 0))
     => LET t  == Cur
            t2 == heap'[vm.task.current]
            a  == OperandValue(t, vm.code, NextIns.arg1, 0)
            b  == OperandValue(t, vm.code, NextIns.arg2,
                               IF NextIns.arg1 = ARG_IMM THEN 1 ELSE 0)
        IN  /\ last'.ret = "SVM_OK"
            /\ t2.flags.eq = (t.flags.eq \/ a = b)
            /\ t2.flags.ne = (t.flags.ne \/ a # b)
            /\ t2.flags.lt = (t.flags.lt \/ a < b)
            /\ t2.flags.le = (t.flags.le \/ a <= b)
            /\ t2.flags.gt = (t.flags.gt \/ a > b)
            /\ t2.flags.ge = (t.flags.ge \/ a >= b)
            /\ t2.flags.nz = t.flags.nz /\ t2.flags.z = t.flags.z
            /\ [t2 EXCEPT !.flags = t.flags, !.pc = t.pc] = t
            /\ t2.pc = t.pc + 1 + ImmCount(NextIns)]_vars

\* C10 witness: "mov r0 5; cmp r0 7" has run: LT, NE and LE are set, EQ, GT
\* and GE are not, and R0 is still 5.
C10_Witness ==
  /\ Cycled /\ HasCur /\ last.ret = "SVM_OK"
  /\ last.ins = svm_pack_instruction(OP_CMP, EXT_NONE, ARG_R0, ARG_IMM)
  /\ InCode(vm.code, last.pc0 + 1) /\ vm.code.buffer[last.pc0 + 2] = 7
  /\ Cur.registers[0] = 5
  /\ Cur.flags.lt /\ Cur.flags.ne /\ Cur.flags.le
  /\ ~Cur.flags.eq /\ ~Cur.flags.gt /\ ~Cur.flags.ge

(* ------------------------------------------------------------------ *)
\* The flags after a CLF with suffix ext that started from flags f.
Cleared(f, ext) ==
  IF ext = EXT_NONE THEN FlagsAll(FALSE)
  ELSE [n \in FlagNames |-> IF ExtOfFlag[n] = ext THEN FALSE ELSE f[n]]

\* Every task but the current one, and the set of tasks, is unchanged.
OtherTasksUnchanged ==
  /\ DOMAIN heap' = DOMAIN heap
  /\ \A a \in DOMAIN heap : a # vm.task.current => heap'[a] = heap[a]

\* C11: a cycle that executes CLF with no suffix leaves all eight flags of
\* the current task false; with the suffix of flag F it leaves F false and
\* the other seven as they were; whatever the flags were before.  Nothing
\* else of the task but pc changes, and no other task changes.
C11_ClfClears ==
  [][(CycleStep /\ WillFetch /\ NextIns.op = OP_CLF
        /\ NextIns.ext \in EXT_NONE..EXT_Z)
     => LET t  == Cur
            t2 == heap'[vm.task.current]
        IN  /\ last'.ret = "SVM_OK"
            /\ t2.flags = Cleared(t.flags, NextIns.ext)
            /\ [t2 EXCEPT !.flags = t.flags, !.pc = t.pc] = t
            /\ OtherTasksUnchanged]_vars

\* C11 witness: a task with all eight flags set has just executed CLF.lt:
\* LT is clear, the other seven are set, and another task still has LT set.
C11_Witness ==
  /\ Cycled /\ HasCur /\ last.ret = "SVM_OK"
  /\ last.ins.op = OP_CLF /\ last.ins.ext = EXT_LT
  /\ Cur.flags = [FlagsAll(TRUE) EXCEPT !.lt = FALSE]
  /\ \E b \in DOMAIN heap : b # vm.task.current /\ heap[b].flags.lt

(* ------------------------------------------------------------------ *)
\* The registers a cycle that executes ins and performs its write writes.
WrittenRegs(ins) ==
  IF ins.op \in AluOps THEN {svm_arg_to_reg(ins.arg1)}
  ELSE IF ins.op = OP_POP
  THEN IF ins.arg2 = ARG_NONE THEN {svm_arg_to_reg(ins.arg1)}
       ELSE svm_arg_to_reg(ins.arg1) .. svm_arg_to_reg(ins.arg2)
  ELSE {}

\* Every access of the step's cycle is defined: it is inside the storage
\* allocated and reads no stack slot that was never written.
DefinedCycle ==
  /\ ~last'.ub
  /\ NextIns.op = OP_POP => last'.stk \subseteq DOMAIN Cur.stack.buffer

\* C12 (as claimed): a cycle in which MOV, ADD..SHR or POP writes a
\* register leaves NZ true if the value written is non-zero and Z true if it
\* is zero.  (Stated for the cycles in which every access is defined.)
C12_WriteSetsNzZ ==
  [][(CycleStep /\ WillFetch /\ NextIns.op \in AluOps \cup {OP_POP}
        /\ last'.ret = "SVM_OK" /\ last'.cond /\ DefinedCycle)
     => LET t2 == heap'[vm.task.current]
        IN  \A r \in WrittenRegs(NextIns) :
              IF t2.registers[r] # 0 THEN t2.flags.nz ELSE t2.flags.z]_vars

(* ------------------------------------------------------------------ *)
\* The word at pc is the range form of op: two registers, lowest first.
RangeForm(ins, op) ==
  /\ ins.op = op
  /\ ins.arg1 \in ARG_R0..ARG_R15 /\ ins.arg2 \in ARG_R0..ARG_R15
  /\ ins.arg1 < ins.arg2

\* Number of values the range form moves.
RangeCount(ins) == ins.arg2 - ins.arg1 + 1

\* This step is a cycle that executes the word at pc and returns SVM_OK.
CycleOk == CycleStep /\ WillFetch /\ last'.ret = "SVM_OK"

\* A range PUSH that succeeds stores registers Rlo..Rhi, lowest first, from
\* the old sp upwards, adds their number to sp, and leaves the registers
\* and the values below the old sp alone.
PushRangeStores ==
  (CycleOk /\ RangeForm(NextIns, OP_PUSH))
    => LET t  == Cur
           t2 == heap'[vm.task.current]
           n  == RangeCount(NextIns)
       IN  /\ t2.sp = t.sp + n
           /\ t2.registers = t.registers
           /\ \A i \in 0..(n - 1) :
                /\ t.sp + i \in DOMAIN t2.stack.buffer
                /\ t2.stack.buffer[t.sp + i] = t.registers[NextIns.arg1 - 1 + i]
           /\ \A j \in DOMAIN t.stack.buffer :
                j < t.sp => t2.stack.buffer[j] = t.stack.buffer[j]

\* A cycle of an opcode other than PUSH and POP leaves sp and the data
\* stack alone, whatever it returns.
OthersKeepStack ==
  (CycleStep /\ WillFetch /\ NextIns.op \notin {OP_PUSH, OP_POP})
    => /\ heap'[vm.task.current].sp = Cur.sp
       /\ heap'[vm.task.current].stack = Cur.stack

\* A range POP that succeeds on a stack holding at least as many values as
\* it moves loads Rlo..Rhi from the values below sp, Rhi from the topmost,
\* and subtracts their number from sp.
PopRangeLoads ==
  (CycleOk /\ RangeForm(NextIns, OP_POP) /\ Cur.sp >= RangeCount(NextIns)
     /\ (Cur.sp - RangeCount(NextIns)) .. (Cur.sp - 1) \subseteq DOMAIN Cur.stack.buffer)
    => LET t  == Cur
           t2 == heap'[vm.task.current]
           n  == RangeCount(NextIns)
       IN  /\ t2.sp = t.sp - n
           /\ \A i \in 0..(n - 1) :
                t2.registers[NextIns.arg1 - 1 + i] = t.stack.buffer[t.sp - n + i]

\* The programs "push Rlo Rhi / instructions that overwrite registers and
\* do not use the stack / pop Rlo Rhi", after the prefix that sets
\* R0 = 1, R1 = 2, R2 = 3.
RoundTrips ==
  {[code |-> StackPrefix \o pp[1] \o mid \o pp[2], lo |-> 0, hi |-> pp[3]]
   : pp \in {<<PushR0R1, PopR0R1, 1>>, <<PushR0R2, PopR0R2, 2>>},
     mid \in Programs(Clobbers, MaxProgramLen)}

\* The closing POP of a round trip has just returned SVM_OK.
RoundTripDone(rt) ==
  /\ vm.code.buffer = rt.code
  /\ Cycled /\ HasCur /\ last.ret = "SVM_OK"
  /\ last.pc0 = Len(rt.code) - 1

\* C13: PUSH Rlo,Rhi, then instructions that overwrite registers but do not
\* use the stack, then POP Rlo,Rhi, on a data stack with room for
\* Rhi-Rlo+1 values, leaves every register Rlo..Rhi with the value it had at
\* the PUSH and sp with the value it had before the PUSH.  Stated end to
\* end for the programs of RoundTrips and, for every instruction word, as
\* what each of the three kinds of step does.
C13_PushPopRoundTrip ==
  /\ [](\A rt \in RoundTrips :
          (RoundTripDone(rt) /\ rt.hi - rt.lo + 1 <= Cur.stack.size)
            => /\ \A r \in rt.lo..rt.hi : Cur.registers[r] = r + 1
               /\ Cur.sp = 0)
  /\ [][PushRangeStores /\ OthersKeepStack /\ PopRangeLoads]_vars

\* C13 witness: "push r0 r1 / mov r0 0 / pop r0 r1" has run with every
\* access inside the allocation: R0 is 1 again, R1 is 2 and sp is 0.
C13_Witness ==
  /\ vm.code.buffer = StackPrefix \o PushR0R1 \o MovR0 \o PopR0R1
  /\ Cycled /\ HasCur /\ last.ret = "SVM_OK" /\ ~last.ub
  /\ last.pc0 = Len(vm.code.buffer) - 1
  /\ Cur.stack.size = TestStackSize
  /\ Cur.registers[0] = 1 /\ Cur.registers[1] = 2 /\ Cur.sp = 0
  /\ Cur.flags.z

(* ------------------------------------------------------------------ *)
\* The programs "push r0 / pop r1" and "push 5 / pop r1" after the prefix
\* that sets R0 = 1, with the value each pushes.
SinglePushPops ==
  {[code |-> StackPrefix \o PushR0 \o PopR1, v |-> 1],
   [code |-> StackPrefix \o PushImm \o PopR1, v |-> 5]}

\* C14: a single PUSH (of a register or of an immediate) immediately
\* followed by a single POP Rb leaves Rb equal to the pushed value and sp
\* at the value it had before the PUSH.
C14_SinglePushPopInverse ==
  \A pp \in SinglePushPops :
    (/\ vm.code.buffer = pp.code
     /\ Cycled /\ HasCur /\ last.ret = "SVM_OK"
     /\ last.pc0 = Len(pp.code) - 1)
      => Cur.registers[1] = pp.v /\ Cur.sp = 0

(* ------------------------------------------------------------------ *)
\* The word is one of the three forms of op the instruction set defines:
\* an immediate (PUSH only), one register, or a range of registers.
StackForm(ins, op) ==
  \/ ins.op = op /\ op = OP_PUSH /\ ins.arg1 = ARG_IMM
  \/ ins.op = op /\ ins.arg1 \in ARG_R0..ARG_R15 /\ ins.arg2 = ARG_NONE
  \/ RangeForm(ins, op)

\* Number of values the PUSH or POP word moves.
StackCount(ins) == IF RangeForm(ins, ins.op) THEN RangeCount(ins) ELSE 1

\* This step is a cycle that executes a taken word of opcode op in one of
\* its defined forms, on a task whose sp is inside its stack.
TakenStackOp(op) ==
  /\ CycleStep /\ WillFetch /\ NextIns.op = op /\ StackForm(NextIns, op)
  /\ last'.cond
  /\ 0 <= Cur.sp /\ Cur.sp <= Cur.stack.size

\* C15: a taken PUSH of n values returns SVM_OK and adds n to sp if and
\* only if sp + n <= stack.size; otherwise it returns SVM_ERR_STK_OVERFLOW
\* and leaves sp and the stack as they were.  The same rule holds for the
\* immediate, the single-register and the range form.
C15_PushIffRoom ==
  [][TakenStackOp(OP_PUSH)
       => LET t  == Cur
              t2 == heap'[vm.task.current]
              n  == StackCount(NextIns)
          IN  IF t.sp + n <= t.stack.size
              THEN last'.ret = "SVM_OK" /\ t2.sp = t.sp + n
              ELSE /\ last'.ret = "SVM_ERR_STK_OVERFLOW"
                   /\ t2.sp = t.sp /\ t2.stack = t.stack]_vars

(* ------------------------------------------------------------------ *)
\* C16: a taken POP of n values returns SVM_ERR_STK_UNDERFLOW, with the
\* registers and sp unchanged, if and only if sp < n; otherwise it returns
\* SVM_OK and subtracts exactly n from sp.
C16_PopIffEnough ==
  [][TakenStackOp(OP_POP)
       => LET t  == Cur
              t2 == heap'[vm.task.current]
              n  == StackCount(NextIns)
          IN  IF t.sp < n
              THEN /\ last'.ret = "SVM_ERR_STK_UNDERFLOW"
                   /\ t2.sp = t.sp /\ t2.registers = t.registers
              ELSE last'.ret = "SVM_OK" /\ t2.sp = t.sp - n]_vars

(* ------------------------------------------------------------------ *)
\* C17: every task's sp stays within 0 <= sp <= data_stack.size; it never
\* wraps below zero.  (sp is a uint32_t held as its 32-bit pattern: a
\* negative number here is a value of 2^31 or more, which is what a
\* decrement of 0 leaves.)
C17_SpWithinStack ==
  \A a \in DOMAIN heap :
    /\ 0 <= heap[a].sp
    /\ heap[a].sp <= heap[a].stack.size

(* ------------------------------------------------------------------ *)
\* C18: every task's rpc stays within 0 <= rpc <= call_stack.size.  (rpc is
\* a uint32_t held as its 32-bit pattern: a negative number here is a value
\* of 2^31 or more.)
C18_RpcWithinCallStack ==
  \A a \in DOMAIN heap :
    /\ 0 <= heap[a].rpc
    /\ heap[a].rpc <= heap[a].call_stack.size

\* C18 witness: an INV has been refused on the fullest call stack the
\* guard of INV lets a task build, and rpc is still within the range.
C18_Witness ==
  /\ Cycled /\ HasCur
  /\ last.ins.op = OP_INV /\ last.ret = "SVM_ERR_CALL_STK_OVERFLOW"
  /\ Cur.rpc = TestCallStackSize - 1
  /\ Cur.call_stack.size = TestCallStackSize

(* ------------------------------------------------------------------ *)
\* C19: an INV that is taken and succeeds records the address of the word
\* after the INV word and its operand literal and adds 1 to rpc; a RET that
\* succeeds resumes at the address on top of the call stack and subtracts 1
\* from rpc; no other cycle changes rpc or the call stack.  So rpc is the
\* number of taken INVs minus the number of successful RETs, and is 0 at
\* END in a balanced execution.  (Stated for the cycles in which every
\* access is defined.)
C19_InvRetLifo ==
  [][(CycleStep /\ WillFetch /\ ~last'.ub)
       => LET t   == Cur
              t2  == heap'[vm.task.current]
              ins == NextIns
          IN  IF ins.op = OP_INV /\ last'.cond /\ last'.ret = "SVM_OK"
              THEN /\ t2.rpc = t.rpc + 1
                   /\ t.rpc \in DOMAIN t2.call_stack.buffer
                   /\ t2.call_stack.buffer[t.rpc]
                        = t.pc + 1 + (IF ins.arg1 = ARG_IMM THEN 1 ELSE 0)
              ELSE IF ins.op = OP_RET /\ last'.ret = "SVM_OK"
              THEN /\ t2.rpc = t.rpc - 1
                   /\ t2.call_stack = t.call_stack
                   /\ t2.rpc \in DOMAIN t.call_stack.buffer
                        => t2.pc = t.call_stack.buffer[t2.rpc]
              ELSE t2.rpc = t.rpc /\ t2.call_stack = t.call_stack]_vars

(* ------------------------------------------------------------------ *)
\* C20: a taken INV returns SVM_ERR_CALL_STK_OVERFLOW only when the call
\* stack is full, that is when rpc equals call_stack.size, so that a task
\* can hold call_stack.size nested invocations.
C20_OverflowOnlyWhenFull ==
  [][(CycleStep /\ WillFetch /\ NextIns.op = OP_INV
        /\ last'.ret = "SVM_ERR_CALL_STK_OVERFLOW")
       => Cur.rpc = Cur.call_stack.size]_vars

(* ------------------------------------------------------------------ *)
\* The target value of the JMP or INV word the next cycle fetches: the
\* register or the literal its first operand names, 0 for no operand.
TargetValue ==
  IF NextIns.arg1 \in ARG_R0..ARG_IMM
  THEN OperandValue(Cur, vm.code, NextIns.arg1, 0) ELSE 0

\* The next cycle's JMP or INV with target value tv does what the claim
\* says: it sets pc to tv if 0 <= tv < code.size, and otherwise returns
\* JMP_OVERFLOW, takes no branch and leaves pc behind the word and its
\* literal.
BranchesIffInCode(tv) ==
  LET t2 == heap'[vm.task.current]
  IN  IF 0 <= tv /\ tv < vm.code.size
      THEN last'.ret = "SVM_OK" /\ last'.branch /\ t2.pc = tv
      ELSE /\ last'.ret = "SVM_ERR_JMP_OVERFLOW" /\ ~last'.branch
           /\ t2.pc = Cur.pc + 1 + (IF NextIns.arg1 = ARG_IMM THEN 1 ELSE 0)

\* This step is a cycle that executes a taken JMP or INV whose operand is
\* read inside the image.
TakenBranch ==
  /\ CycleStep /\ WillFetch /\ NextIns.op \in {OP_JMP, OP_INV}
  /\ last'.cond /\ ~last'.ub

\* C21 (as claimed): a taken JMP or INV with target value t sets pc to t if
\* and only if 0 <= t < code.size; for every other t, negative ones
\* included, it returns JMP_OVERFLOW and does not set pc to t.
C21_BranchIffInCode ==
  [][TakenBranch => BranchesIffInCode(TargetValue)]_vars

\* C21 (amended): the same for a taken JMP and for a taken INV that is not
\* refused with CALL_STK_OVERFLOW; an INV that is refused so takes no
\* branch whatever its target.
C21_BranchIffInCodeUnlessRefused ==
  [][TakenBranch
       => IF last'.ret = "SVM_ERR_CALL_STK_OVERFLOW"
          THEN /\ NextIns.op = OP_INV /\ ~last'.branch
               /\ heap'[vm.task.current].pc
                    = Cur.pc + 1 + (IF NextIns.arg1 = ARG_IMM THEN 1 ELSE 0)
          ELSE BranchesIffInCode(TargetValue)]_vars

\* C21 witness: a JMP whose target register holds -1 has returned
\* JMP_OVERFLOW and pc is just behind the JMP word.
C21_Witness ==
  /\ Cycled /\ HasCur /\ ~last.ub /\ last.cond
  /\ last.ins.op = OP_JMP /\ last.ins.arg1 = ARG_R1
  /\ Cur.registers[1] = -1
  /\ last.ret = "SVM_ERR_JMP_OVERFLOW"
  /\ Cur.pc = last.pc0 + 1

(* ------------------------------------------------------------------ *)
RECURSIVE ListFrom(_, _, _)
\* The tasks reached from a along next, at most n of them.
ListFrom(h, a, n) ==
  IF a = NULL \/ n = 0 THEN <<>> ELSE <<a>> \o ListFrom(h, h[a].next, n - 1)

\* The task list of a machine, from head, and the one of this state.
ListOf(m) == ListFrom(m.heap, m.vm.task.head, Cardinality(DOMAIN m.heap))
TaskList == ListOf(Machine)

InList(L, a) == \E i \in 1..Len(L) : L[i] = a
IndexIn(L, a) == CHOOSE i \in 1..Len(L) : L[i] = a

RECURSIVE Switched(_, _)
\* The machine after k successive calls of svm_task_switch.
Switched(m, k) == IF k = 0 THEN m ELSE Switched(svm_task_switch(m).m, k - 1)

\* Switching is not blocked and the cursor is on a task of the list.
CanSwitch ==
  HasCur /\ ~vm.flags.task_switch_block /\ InList(TaskList, vm.task.current)

\* C22: with N >= 1 tasks in the list and switching not blocked, successive
\* svm_task_switch calls (no create or remove in between) make the tasks
\* current in creation order and wrap from the last to the first: every
\* task is current exactly once in N consecutive switches, and N switches
\* return the cursor to where it started.  (svm_malloc hands out ascending
\* addresses here, so creation order is address order.)
C22_RoundRobin ==
  CanSwitch =>
    LET L == TaskList
        N == Len(L)
        i == IndexIn(L, vm.task.current)
    IN  /\ \A j \in 1..(N - 1) : L[j] < L[j + 1]
        /\ \A k \in 1..N :
             /\ svm_task_switch(Switched(Machine, k - 1)).ret = "SVM_OK"
             /\ Switched(Machine, k).vm.task.current = L[((i - 1 + k) % N) + 1]
             /\ ListOf(Switched(Machine, k)) = L
        /\ Cardinality({Switched(Machine, k).vm.task.current : k \in 1..N}) = N
        /\ Switched(Machine, N).vm.task.current = vm.task.current

\* C22 witness: with MaxRingTasks tasks in the list, a switch has just
\* moved the cursor to head, the task the last task of the list wraps to.
C22_Witness ==
  /\ CanSwitch /\ Len(TaskList) = MaxRingTasks
  /\ last.call = "svm_task_switch" /\ last.ret = "SVM_OK"
  /\ vm.task.current = vm.task.head
  /\ Switched(Machine, MaxRingTasks - 1).vm.task.current = TaskList[MaxRingTasks]

(* ------------------------------------------------------------------ *)
\* C23: while task_switch_block is set svm_task_switch returns
\* TASK_SWITCH_BLOCKED and changes nothing; svm_task_block changes nothing
\* but the flag, so that the switch after svm_task_block(false) advances
\* from the task the cursor was on all along; svm_cycle does not write the
\* flag, and what a cycle does is determined by running, the current task
\* and the code alone.
C23_BlockedSwitch ==
  /\ [][(last'.call = "svm_task_switch" /\ vm.flags.task_switch_block)
          => /\ last'.ret = "SVM_ERR_TASK_SWITCH_BLOCKED"
             /\ vm' = vm /\ heap' = heap]_vars
  /\ [][(last'.call = "svm_task_block")
          => /\ [vm' EXCEPT !.flags.task_switch_block = FALSE]
                  = [vm EXCEPT !.flags.task_switch_block = FALSE]
             /\ heap' = heap]_vars
  /\ []((HasCur /\ vm.flags.task_switch_block /\ InList(TaskList, vm.task.current))
          => LET L == TaskList
                 i == IndexIn(L, vm.task.current)
                 u == svm_task_block(svm_task_switch(Machine).m, FALSE)
             IN  /\ u.ret = "SVM_OK"
                 /\ svm_task_switch(u.m).ret = "SVM_OK"
                 /\ svm_task_switch(u.m).m.vm.task.current = L[(i % Len(L)) + 1])
  /\ [][CycleCall
          => /\ vm'.flags.task_switch_block = vm.flags.task_switch_block
             /\ vm.task.current # NULL =>
                  \E r \in svm_cycle(vm.flags.running, Cur, vm.code) :
                    /\ r.t = heap'[vm.task.current]
                    /\ r.ret = last'.ret
                    /\ r.running = vm'.flags.running]_vars

\* C23 witness: a switch has just been refused while the cursor is on the
\* second of several tasks, and the next cycle can run that task.
C23_Witness ==
  /\ last.call = "svm_task_switch" /\ last.ret = "SVM_ERR_TASK_SWITCH_BLOCKED"
  /\ vm.flags.task_switch_block /\ vm.flags.running
  /\ Len(TaskList) >= 2 /\ vm.task.current = TaskList[2]

(* ------------------------------------------------------------------ *)
\* The sequence L without its element a.
Without(L, a) == SelectSeq(L, LAMBDA b : b # a)

\* C24: svm_task_remove(task), for a task that is in the list and is not
\* the current task, returns SVM_OK, after which the task is not reachable
\* from head and the other tasks are, in their previous order;
\* TASK_NOT_FOUND is returned only for a task that is not in the list.
C24_RemoveUnlinks ==
  [][(last'.call = "svm_task_remove" /\ last'.ret # "fault")
       => IF InList(TaskList, last'.task)
          THEN /\ last'.ret = "SVM_OK"
               /\ TaskList' = Without(TaskList, last'.task)
          ELSE TaskList' = TaskList]_vars

(* ------------------------------------------------------------------ *)
\* C25: after any sequence of svm_load, svm_task_create, svm_task_switch,
\* svm_task_block, svm_cycle and svm_task_remove calls in which the task
\* removed is never the current one, the current task is one of the tasks
\* reachable from head.  (Stated for the sequences that contain an
\* svm_load; before it there is no task.)
C25_CurrentInList ==
  ~vm.code.null => HasCur /\ InList(TaskList, vm.task.current)

SizeOr(meta, default) == IF meta = 0 THEN default ELSE meta

\* C27: after svm_init followed by a successful svm_load the task list
\* holds exactly one task; it is the current task, its pc is 0, its 16
\* registers are 0, its eight flags are clear, sp = rpc = 0, its stack
\* sizes are the code metadata values, or 8 and 32 where the metadata is
\* zero, and running is true.
C27_LoadSpawnsTaskZero ==
  [][(vm = svm_init /\ DOMAIN heap = {}
        /\ last'.call = "svm_load" /\ last'.ret = "SVM_OK")
       => /\ Len(TaskList') = 1
          /\ vm'.task.current = TaskList'[1]
          /\ vm'.flags.running
          /\ LET t == heap'[vm'.task.current]
             IN  /\ t.pc = 0 /\ t.sp = 0 /\ t.rpc = 0
                 /\ DOMAIN t.registers = 0..15
                 /\ \A r \in 0..15 : t.registers[r] = 0
                 /\ \A f \in FlagNames : ~t.flags[f]
                 /\ t.call_stack.size = SizeOr(vm'.code.meta.call_stack_size, 8)
                 /\ t.stack.size = SizeOr(vm'.code.meta.stack_size, 32)]_vars

\* C27 witness: svm_load of an image without stack sizes has just returned
\* SVM_OK, and the one task has a call stack of 8 and a data stack of 32.
C27_Witness ==
  /\ last.call = "svm_load" /\ last.ret = "SVM_OK"
  /\ vm.code.meta.call_stack_size = 0 /\ vm.code.meta.stack_size = 0
  /\ HasCur /\ TaskList = <<vm.task.current>>
  /\ Cur.call_stack.size = 8 /\ Cur.stack.size = 32
  /\ Cur.pc = 0 /\ vm.flags.running

(* ------------------------------------------------------------------ *)
\* C28: svm_unload takes a loaded VM, running or halted, to the
\* loaded-stopped state: afterwards running is false and no task remains
\* in the task list (so that svm_cycle returns NOT_RUNNING).
C28_UnloadStops ==
  [][(last'.call = "svm_unload" /\ ~vm.code.null)
       => /\ ~vm'.flags.running
          /\ vm'.task.head = NULL]_vars

(* ------------------------------------------------------------------ *)
\* C29: for every opcode, extension and argument type of the enumerations
\* svm_instruction_to_int32(svm_pack_instruction(op, ext, arg1, arg2)) is
\* op | ext<<8 | arg1<<16 | arg2<<24, with NOP = 0 ... SYS = 19, EXT
\* NONE = 0 ... Z = 8, ARG NONE = 0, R0..R15 = 1..16, IMM = 17, and
\* svm_cycle decodes the same four fields from that word.
C29_PackRoundTrip ==
  /\ <<OP_NOP, OP_END, OP_MOV, OP_PUSH, OP_POP, OP_ADD, OP_SUB, OP_MUL,
       OP_DIV, OP_AND, OP_OR, OP_XOR, OP_SHL, OP_SHR, OP_CMP, OP_CLF,
       OP_JMP, OP_INV, OP_RET, OP_SYS>> = [n \in 1..20 |-> n - 1]
  /\ <<EXT_NONE, EXT_EQ, EXT_NE, EXT_LT, EXT_LE, EXT_GT, EXT_GE, EXT_NZ,
       EXT_Z>> = [n \in 1..9 |-> n - 1]
  /\ <<ARG_NONE, ARG_R0, ARG_R15, ARG_IMM>> = <<0, 1, 16, 17>>
  /\ [](last.call = "svm_load"
          => LET i == last.ins
                 w == vm.code.buffer[1]
             IN  /\ w = i.op + (256 * i.ext) + (65536 * i.arg1) + (16777216 * i.arg2)
                 /\ DecodeInstruction(w) = i)
  /\ [][(last.call = "svm_load" /\ CycleCall /\ last'.reads # {})
          => last'.ins = last.ins]_vars

\* C29 witness: "sys.z r15 imm" (the largest value of every field) was
\* packed into 0x11100813 and the cycle has decoded the four fields.
C29_Witness ==
  /\ Cycled /\ last.pc0 = 0
  /\ last.ins = svm_pack_instruction(OP_SYS, EXT_Z, ARG_R15, ARG_IMM)
  /\ vm.code.buffer = <<286263315>>

(* ------------------------------------------------------------------ *)
\* For the well-formed sources of Sources: the label names their operands
\* refer to (operand tokens that are neither r0..r15 nor a decimal, 0x or
\* 0b literal), the label names they define, and the literal words that
\* stand for a reference.
LabelFacts ==
  {[text |-> SrcEnd,       refs |-> {}, defs |-> {}, uses |-> {}],
   [text |-> SrcNoNewline, refs |-> {}, defs |-> {}, uses |-> {}],
   [text |-> SrcImmFirst,  refs |-> {}, defs |-> {}, uses |-> {}],
   [text |-> SrcCompare,   refs |-> {}, defs |-> {}, uses |-> {}],
   [text |-> SrcJump,      refs |-> {<<"s", "k", "i", "p">>},
                           defs |-> {<<"s", "k", "i", "p">>},
                           uses |-> {<<1, <<"s", "k", "i", "p">>>>}],
   [text |-> SrcHexName,   refs |-> {<<"b", "a", "d">>}, defs |-> {},
                           uses |-> {}]}

\* C30: assembly (svm_asm followed by the patch pass) returns
\* UNDEFINED_LABEL if and only if some label reference of the source names
\* no label defined in the source; when all are defined it returns OK and
\* the literal word of every reference holds the offset of its label.
C30_UndefinedLabelIff ==
  last.call = "svm_asm_file" =>
    \A f \in LabelFacts :
      asm = svm_asm_file(f.text, asm.kept) =>
        /\ (asm.ret = "SVM_ASM_ERR_UNDEFINED_LABEL") <=> ~(f.refs \subseteq f.defs)
        /\ f.refs \subseteq f.defs =>
             /\ asm.ret = "SVM_ASM_OK"
             /\ \A u \in f.uses :
                  asm.code[u[1] + 1] = svm_asm_find_label(asm, u[2])

(* ------------------------------------------------------------------ *)
\* The assembler has returned from the source text, or the image the VM
\* holds was assembled from it.
Assembled(text) ==
  asm.ret \notin {"none", "hang", "fault"} /\ asm = svm_asm_file(text, asm.kept)

\* C31: "jmp later / mov r0 1 / later: / mov r0 7 / end" assembles without
\* error, the literal of the JMP is the offset of the first word emitted
\* after "later:" (4: two instructions of two words precede it), and the
\* program run from it never has 1 in R0 and has 7 in R0 when END is
\* executed.
C31_ColonLabelResolves ==
  Assembled(SrcLater) =>
    /\ asm.ret = "SVM_ASM_OK"
    /\ asm.code[2] = 4
    /\ HasCur => /\ Cur.registers[0] # 1
                 /\ (Cycled /\ last.ins.op = OP_END) => Cur.registers[0] = 7

(* ------------------------------------------------------------------ *)
\* The value of each digit character.
DigitValue ==
  ("0" :> 0 @@ "1" :> 1 @@ "2" :> 2 @@ "3" :> 3 @@ "4" :> 4 @@ "5" :> 5 @@
   "6" :> 6 @@ "7" :> 7 @@ "8" :> 8 @@ "9" :> 9 @@
   "a" :> 10 @@ "b" :> 11 @@ "c" :> 12 @@ "d" :> 13 @@ "e" :> 14 @@ "f" :> 15 @@
   "A" :> 10 @@ "B" :> 11 @@ "C" :> 12 @@ "D" :> 13 @@ "E" :> 14 @@ "F" :> 15)

\* The digits of each base.
DigitsOf(base) == {ch \in DOMAIN DigitValue : DigitValue[ch] < base}

\* The base a token is written in and where its digits start.
BaseOf(tok) ==
  IF Len(tok) >= 2 /\ tok[1] = "0" /\ tok[2] = "x" THEN [base |-> 16, from |-> 3]
  ELSE IF Len(tok) >= 2 /\ tok[1] = "0" /\ tok[2] = "b" THEN [base |-> 2, from |-> 3]
  ELSE [base |-> 10, from |-> 1]

\* tok is a literal: one or more digits of its base after the prefix.
IsLiteral(tok) ==
  /\ BaseOf(tok).from <= Len(tok)
  /\ \A i \in BaseOf(tok).from..Len(tok) : tok[i] \in DigitsOf(BaseOf(tok).base)

RECURSIVE DigitsValue(_, _, _)
\* The number the digits tok[from..n] denote in the base.
DigitsValue(tok, n, base) ==
  IF n < BaseOf(tok).from THEN 0
  ELSE DigitsValue(tok, n - 1, base) * base + DigitValue[tok[n]]

\* C32: svm_to_int32 accepts exactly the tokens "0x" + hexadecimal digits,
\* "0b" + binary digits and decimal digits (one digit or more in each
\* case), and the value it returns is the number they denote.
C32_ToInt32Literals ==
  last.call = "svm_to_int32" =>
    /\ (last.ret = "true") <=> IsLiteral(last.str)
    /\ last.ret = "true" =>
         last.value = DigitsValue(last.str, Len(last.str), BaseOf(last.str).base)

(* ------------------------------------------------------------------ *)
\* The sources of Sources that hold a comment, and the same text without
\* the comment (from '#' up to the end of the line).
CommentFacts ==
  {[text |-> SrcComment, stripped |-> <<"\n", "e", "n", "d", "\n">>]}

\* C33: on a source with a '#' comment svm_asm terminates, and the words
\* and labels it has emitted are those it emits for the source without the
\* comment.
C33_CommentsSkipped ==
  \A c \in CommentFacts :
    /\ ~(asm.ret = "hang" /\ asm.s = Append(c.text, NUL))
    /\ Assembled(c.text) =>
         /\ asm.code = svm_asm_file(c.stripped, asm.kept).code
         /\ asm.labels.buffer = svm_asm_file(c.stripped, asm.kept).labels.buffer

(* ------------------------------------------------------------------ *)
\* The assembler has accepted the source text.
Accepted(text) == Assembled(text) /\ asm.ret = "SVM_ASM_OK"

RECURSIVE Disassemble(_, _)
\* The instructions of an image, decoded from the word at index on: each
\* instruction is one word and a literal word for each IMM operand.
Disassemble(code, index) ==
  IF index >= Len(code) THEN <<>>
  ELSE LET ins == DecodeInstruction(code[index + 1])
       IN  <<ins>> \o Disassemble(code, index + 1 + ImmCount(ins))

RECURSIVE LiteralsOf(_, _)
\* The offsets of the literal words, by the same rule.
LiteralsOf(code, index) ==
  IF index >= Len(code) THEN {}
  ELSE LET ins == DecodeInstruction(code[index + 1])
       IN  (index + 1)..(index + ImmCount(ins))
             \cup LiteralsOf(code, index + 1 + ImmCount(ins))

\* The instructions of a source that has no operand, one and two.
Ins0(op, ext) == svm_pack_instruction(op, ext, ARG_NONE, ARG_NONE)
Ins1(op, ext, arg1) == svm_pack_instruction(op, ext, arg1, ARG_NONE)

\* The instruction stream of each source of Sources whose lines are
\* complete: opcode, written suffix or EXT_NONE, and the types of the
\* operands as written.
StreamFacts ==
  {[text |-> SrcEnd,       stream |-> <<Ins0(OP_END, EXT_NONE)>>],
   [text |-> SrcNoNewline, stream |-> <<Ins0(OP_END, EXT_NONE)>>],
   [text |-> SrcCompare,
    stream |-> <<svm_pack_instruction(OP_MOV, EXT_NONE, ARG_R0, ARG_IMM),
                 svm_pack_instruction(OP_CMP, EXT_NONE, ARG_R0, ARG_IMM),
                 svm_pack_instruction(OP_MOV, EXT_EQ, ARG_R0, ARG_IMM),
                 Ins0(OP_END, EXT_NONE)>>],
   [text |-> SrcImmFirst,
    stream |-> <<svm_pack_instruction(OP_MOV, EXT_EQ, ARG_IMM, ARG_R0),
                 Ins0(OP_END, EXT_NONE)>>],
   [text |-> SrcImmOperands,
    stream |-> <<svm_pack_instruction(OP_CMP, EXT_NONE, ARG_IMM, ARG_R0),
                 svm_pack_instruction(OP_MOV, EXT_NONE, ARG_IMM, ARG_R0),
                 Ins0(OP_END, EXT_NONE)>>],
   [text |-> SrcJump,
    stream |-> <<Ins1(OP_JMP, EXT_NONE, ARG_IMM),
                 svm_pack_instruction(OP_MOV, EXT_NONE, ARG_R0, ARG_IMM),
                 svm_pack_instruction(OP_CMP, EXT_NONE, ARG_R0, ARG_R0),
                 Ins0(OP_CLF, EXT_EQ), Ins0(OP_CLF, EXT_NONE),
                 Ins0(OP_END, EXT_NONE)>>],
   [text |-> SrcHexName,
    stream |-> <<Ins1(OP_JMP, EXT_NONE, ARG_IMM), Ins0(OP_END, EXT_NONE)>>],
   [text |-> SrcLater,
    stream |-> <<Ins1(OP_JMP, EXT_NONE, ARG_IMM),
                 svm_pack_instruction(OP_MOV, EXT_NONE, ARG_R0, ARG_IMM),
                 svm_pack_instruction(OP_MOV, EXT_NONE, ARG_R0, ARG_IMM),
                 Ins0(OP_END, EXT_NONE)>>],
   [text |-> SrcPush,
    stream |-> <<Ins1(OP_PUSH, EXT_NONE, ARG_R0), Ins0(OP_END, EXT_NONE)>>]}

\* The image of an accepted source is its instruction stream.
StreamEmitted(f) ==
  Accepted(f.text) =>
    /\ Disassemble(asm.code, 0) = f.stream
    /\ LiteralsOf(asm.code, 0) = asm.lits

\* C34: the image of every accepted source, decoded from offset 0 with one
\* word for an instruction and one for each of its IMM operands, is the
\* instruction stream of the source, and the words the rule takes for
\* literals are those the assembler emitted for the IMM operands.
C34_ImageIsStream == \A f \in StreamFacts : StreamEmitted(f)

PatchFacts ==
  {[text    |-> SrcJump,
    labels  |-> <<[name |-> <<"s", "k", "i", "p">>, location |-> 4]>>,
    patches |-> <<[name |-> <<"s", "k", "i", "p">>, location |-> 1]>>,
    words   |-> {<<1, 4>>}]}

\* C36: a label definition binds the name to the number of words emitted
\* before it; a forward reference is recorded as a patch at the index of
\* its own literal word, and the patch pass writes the label's offset
\* there, changes no other word of the image and leaves its size.
C36_LabelsBoundAndPatched ==
  \A f \in PatchFacts :
    Assembled(f.text) =>
      LET before == svm_asm(AsmCtx(f.text, asm.kept))
      IN  /\ before.labels.buffer = f.labels
          /\ before.patches.buffer = f.patches
          /\ asm.ret = "SVM_ASM_OK"
          /\ Len(asm.code) = Len(before.code)
          /\ \A u \in f.words : asm.code[u[1] + 1] = u[2]
          /\ \A i \in 1..Len(before.code) :
               (\A u \in f.words : u[1] + 1 # i) => asm.code[i] = before.code[i]

(* ------------------------------------------------------------------ *)
\* The assembler accepts "cmp 5 r0 / mov 5 r0 / end" and emits the two
\* instructions with IMM as the type of the first operand.
ImmFirstAccepted ==
  (last.call = "svm_asm_file" /\ Assembled(SrcImmOperands)) =>
    /\ asm.ret = "SVM_ASM_OK"
    /\ asm.code = <<W(OP_CMP, EXT_NONE, ARG_IMM, ARG_R0), 5,
                    W(OP_MOV, EXT_NONE, ARG_IMM, ARG_R0), 5,
                    W(OP_END, EXT_NONE, ARG_NONE, ARG_NONE)>>

\* A cycle that executes, with its predicate satisfied, an instruction of
\* the opcodes Ops that the assembler emitted with an immediate as first
\* operand returns ARG_NOT_REG and writes no register.
ImmFirstRefused(Ops) ==
  (CycleStep /\ WillFetch /\ RunsAssembled
     /\ Cur.pc \notin vm.code.lits
     /\ NextIns.op \in Ops /\ NextIns.arg1 = ARG_IMM
     /\ (NextIns.ext = EXT_NONE \/ FlagOf(Cur, NextIns.ext)))
  => /\ last'.ret = "SVM_ERR_ARG_NOT_REG"
     /\ heap'[vm.task.current].registers = Cur.registers

\* C37 (as claimed): the assembler accepts a two-operand instruction whose
\* first operand is an immediate, and executing it with its predicate
\* satisfied returns ARG_NOT_REG and writes no register.
C37_ImmFirstOperand ==
  /\ []ImmFirstAccepted
  /\ [][ImmFirstRefused(AluOps \cup {OP_CMP})]_vars

\* C37 (amended): ... of MOV and the arithmetic and logic opcodes returns
\* ARG_NOT_REG and writes no register; a CMP with an immediate as first
\* operand compares the immediate with the second operand, returns SVM_OK
\* and writes no register.
C37_ImmFirstOperandButCmp ==
  /\ []ImmFirstAccepted
  /\ [][ImmFirstRefused(AluOps)]_vars
  /\ [][(CycleStep /\ WillFetch /\ RunsAssembled
           /\ Cur.pc \notin vm.code.lits
           /\ NextIns.op = OP_CMP /\ NextIns.arg1 = ARG_IMM
           /\ NextIns.arg2 \in ARG_R0..ARG_R15)
        => LET a  == vm.code.buffer[Cur.pc + 2]
               b  == Cur.registers[NextIns.arg2 - 1]
               t2 == heap'[vm.task.current]
           IN  /\ last'.ret = "SVM_OK"
               /\ t2.registers = Cur.registers
               /\ t2.flags.eq = (Cur.flags.eq \/ a = b)
               /\ t2.flags.gt = (Cur.flags.gt \/ a > b)
               /\ t2.flags.lt = (Cur.flags.lt \/ a < b)]_vars

\* C37 witness: the MOV of "mov 5 r0" has been executed and refused, and R0
\* is still 0; the CMP before it has compared 5 with R0.
C37_Witness ==
  /\ Cycled /\ HasCur /\ RunsAssembled
  /\ last.ins = svm_pack_instruction(OP_MOV, EXT_NONE, ARG_IMM, ARG_R0)
  /\ last.pc0 = 2
  /\ last.ret = "SVM_ERR_ARG_NOT_REG"
  /\ Cur.registers[0] = 0
  /\ Cur.flags.gt /\ ~Cur.flags.eq

(* ------------------------------------------------------------------ *)
\* The twenty mnemonics.
Mnemonics ==
  {<<"n", "o", "p">>, <<"e", "n", "d">>, <<"m", "o", "v">>,
   <<"p", "u", "s", "h">>, <<"p", "o", "p">>, <<"a", "d", "d">>,
   <<"s", "u", "b">>, <<"m", "u", "l">>, <<"d", "i", "v">>,
   <<"a", "n", "d">>, <<"o", "r">>, <<"x", "o", "r">>, <<"s", "h", "l">>,
   <<"s", "h", "r">>, <<"c", "m", "p">>, <<"c", "l", "f">>,
   <<"j", "m", "p">>, <<"i", "n", "v">>, <<"r", "e", "t">>,
   <<"s", "y", "s">>}

\* The numbers of operands the opcode constraint table gives an opcode.
OperandCounts(op) ==
  CASE op \in {OP_NOP, OP_END, OP_RET, OP_CLF} -> {0}
    [] op \in {OP_JMP, OP_INV, OP_SYS} -> {1}
    [] op \in {OP_PUSH, OP_POP} -> {1, 2}
    [] OTHER -> {2}

\* The number of operands of an instruction word.
OperandCount(ins) ==
  (IF ins.arg1 # ARG_NONE THEN 1 ELSE 0) + (IF ins.arg2 # ARG_NONE THEN 1 ELSE 0)

\* C38: no mnemonic is taken for a label definition, and every source line
\* that starts with a mnemonic is assembled as an instruction of that
\* opcode with a number of operands the constraint table allows.
C38_MnemonicsAssembled ==
  (last.call = "svm_asm_file" /\ last.ret # "fault") =>
    /\ \A i \in 1..Len(asm.labels.buffer) :
         asm.labels.buffer[i].name \notin Mnemonics
    /\ \A f \in StreamFacts :
         Accepted(f.text) =>
           LET image == Disassemble(asm.code, 0)
           IN  /\ Len(image) = Len(f.stream)
               /\ \A i \in 1..Len(image) :
                    /\ image[i].op = f.stream[i].op
                    /\ OperandCount(image[i]) \in OperandCounts(image[i].op)

(* ------------------------------------------------------------------ *)
\* C39: in every state in which the running flag is set a current task is
\* selected (among them the states svm_load returns in, whatever it
\* returns).
C39_RunningHasCurrent == vm.flags.running => vm.task.current # NULL

(* ------------------------------------------------------------------ *)
\* C40: every slot of the data stack and of the call stack that a cycle
\* reads or writes has an index i with 0 <= i < allocated bytes / 4 of the
\* stack it belongs to.
C40_StackAccessInAllocation ==
  (Cycled /\ HasCur) =>
    /\ \A i \in last.stk : 0 <= i /\ i < AllocWords(Cur.stack.size)
    /\ \A i \in last.cstk : 0 <= i /\ i < AllocWords(Cur.call_stack.size)

====
